---- MODULE Spec2Model ----
(***************************************************************************)
(* A model of the OpenEO REST facade (ndvi-time-series-js-api):             *)
(*   - OpenEOService.getAccessToken, the token cache, with its callers      *)
(*     interleaving at the two awaits of the function;                      *)
(*   - OpenEOService.resolveDemCollectionId, the collection resolver;       *)
(*   - OpenEOService.bboxFromPolygon and                                    *)
(*     FileStorageService.getBboxFromCoordinates behind the Joi schema;     *)
(*   - transformDemData and the JSON answer of POST /dem/clip;              *)
(*   - the cleaning and parsing of a textual payload in POST /dem/clip;     *)
(*   - one inbound request, POST /ndvi/timeseries or POST /dem/clip, from   *)
(*     the validation middleware through the outbound calls to the answer;  *)
(*   - the process graphs of getNDVITimeseries and getDEMCutout;            *)
(*   - GET and DELETE /dem/files/:filename against the storage directory.   *)
(***************************************************************************)
EXTENDS Integers, Sequences, FiniteSets, TLC

VARIABLES
    now,            \* Date.now(), in milliseconds
    accessToken,    \* this.accessToken
    tokenExpiry,    \* this.tokenExpiry
    pc,             \* per caller: where its getAccessToken call stands
    result,         \* per caller: the value its call returned
    tokenResponse,  \* per caller: the identity endpoint's answer (the local of line 26)
    capRequests,    \* per caller: GET baseURL/ requests issued by its current call
    tokRequests,    \* per caller: identity-endpoint POSTs issued by its current call
    product,        \* resolveDemCollectionId: the product argument
    catalogReply,   \* resolveDemCollectionId: the answer to GET /collections
    resolverPc,     \* resolveDemCollectionId: where the call stands
    resolved,       \* resolveDemCollectionId: how the call ended
    body,           \* POST /dem/clip: the coordinates member of the request body
    validation,     \* POST /dem/clip: the verdict of validateDemRequest
    bbox,           \* getDEMCutout: the bbox of line 321
    storageBbox,    \* saveDemFile: the bbox of generateFilename, line 28
    demData,        \* transformDemData: the argument (parsedData of the route)
    transformed,    \* POST /dem/clip: transformedData, line 219
    response,       \* POST /dem/clip: what the route sent
    transformPc,    \* POST /dem/clip: where the handling of the result stands
    request,        \* an inbound request: req.body
    nodeEnv,        \* process.env.NODE_ENV
    reqPc,          \* an inbound request: where its handling stands
    answer,         \* an inbound request: the response sent
    resultCalls,    \* an inbound request: POSTs to /result issued for it
    resultReply,    \* an inbound request: how POST /result settled
    data,           \* POST /dem/clip: the textual payload of line 139
    parsedData,     \* POST /dem/clip: parsedData of lines 186-217
    graphArgs,      \* getNDVITimeseries / getDEMCutout: the arguments of the call
    processGraph,   \* getNDVITimeseries / getDEMCutout: the processGraph local
    storedFiles,    \* the file system: the paths that exist
    fileRequest,    \* GET or DELETE /dem/files/:filename: the request
    fileAnswer,     \* GET or DELETE /dem/files/:filename: the status sent
    touched         \* the paths read, sent or unlinked so far

tokenVars == <<now, accessToken, tokenExpiry, pc, result, tokenResponse,
               capRequests, tokRequests>>

resolverVars == <<product, catalogReply, resolverPc, resolved>>

bboxVars == <<body, validation, bbox, storageBbox>>

transformVars == <<demData, transformed, response, transformPc>>

requestVars == <<request, nodeEnv, reqPc, answer, resultCalls, resultReply>>

sanitizeVars == <<data, parsedData>>

graphVars == <<graphArgs, processGraph>>

storageVars == <<storedFiles, fileRequest, fileAnswer, touched>>

vars == <<now, accessToken, tokenExpiry, pc, result, tokenResponse,
          capRequests, tokRequests, product, catalogReply, resolverPc, resolved,
          body, validation, bbox, storageBbox,
          demData, transformed, response, transformPc,
          request, nodeEnv, reqPc, answer, resultCalls, resultReply,
          data, parsedData, graphArgs, processGraph,
          storedFiles, fileRequest, fileAnswer, touched>>

\* What the steps of one component leave alone: the other components.
nonTokenVars == <<resolverVars, bboxVars, transformVars, requestVars, sanitizeVars,
    graphVars, storageVars>>
nonResolverVars == <<tokenVars, bboxVars, transformVars, requestVars, sanitizeVars,
    graphVars, storageVars>>
nonBboxVars == <<tokenVars, resolverVars, transformVars, requestVars, sanitizeVars,
    graphVars, storageVars>>
nonTransformVars == <<tokenVars, resolverVars, bboxVars, requestVars, sanitizeVars,
    graphVars, storageVars>>
nonRequestVars == <<tokenVars, resolverVars, bboxVars, transformVars, sanitizeVars,
    graphVars, storageVars>>
nonSanitizeVars == <<tokenVars, resolverVars, bboxVars, transformVars, requestVars,
    graphVars, storageVars>>
nonGraphVars == <<tokenVars, resolverVars, bboxVars, transformVars, requestVars,
    sanitizeVars, storageVars>>
nonStorageVars == <<tokenVars, resolverVars, bboxVars, transformVars, requestVars,
    sanitizeVars, graphVars>>

(***************************************************************************)
(* Bounds of the model.                                                     *)
(***************************************************************************)
NumCallers == 2
MaxEpochs == 2
MaxCatalog == 3
MaxRing == 3
MaxCells == 2
MaxSamples == 4
MaxName == 3

Callers == 1..NumCallers

(***************************************************************************)
(* JavaScript values.                                                       *)
(***************************************************************************)
Null == "null"
Undefined == "undefined"
NullExpiry == -1

\* `${x}` of a template literal: undefined prints as "undefined".
TemplateString(x) == x

\* JavaScript truthiness of this.accessToken (a string or null).
TruthyString(s) == s # Null /\ s # ""

\* JavaScript truthiness of this.tokenExpiry (a number or null).
TruthyNumber(n) == n # NullExpiry /\ n # 0

(***************************************************************************)
(* OpenEOService.getAccessToken                                             *)
(***************************************************************************)
TokenPrefix == "oidc/CDSE/"
TokenTTL == 55 * 60 * 1000

\* The instants the clock is observed at: around every multiple of the TTL.
Instants == {k * TokenTTL + d : k \in 0..MaxEpochs, d \in 1..3}

\* What the identity endpoint can answer to the client-credentials POST:
\* a 2xx with a token, a 2xx whose body has no access_token member, a 2xx
\* whose body is the JSON value null, and a non-2xx status (axios rejects).
IdentityReplies ==
    {[status |-> 200, body |-> "object", access_token |-> "A"],
     [status |-> 200, body |-> "object", access_token |-> "B"],
     [status |-> 200, body |-> "object", access_token |-> Undefined],
     [status |-> 200, body |-> Null, access_token |-> Undefined],
     [status |-> 401, body |-> "object", access_token |-> Undefined]}

NoReply == [status |-> 0, body |-> Null, access_token |-> Undefined]

\* axios resolves on a 2xx status and rejects otherwise.
AxiosResolves(r) == r.status >= 200 /\ r.status < 300

\* tokenResponse.data.access_token throws a TypeError when data is null.
ReadThrows(r) == r.body = Null

\* CacheHit with the comparison off by one millisecond.
CacheHitOffByOne ==
    TruthyString(accessToken) /\ TruthyNumber(tokenExpiry) /\ now + 1 < tokenExpiry

\* line 15: the cached token is still valid.
CacheHit ==
    TruthyString(accessToken) /\ TruthyNumber(tokenExpiry) /\ now < tokenExpiry

\* The sequences over S of length at most n.
RECURSIVE SeqsUpTo(_, _)
SeqsUpTo(S, n) ==
    IF n = 0 THEN {<<>>}
    ELSE LET shorter == SeqsUpTo(S, n - 1)
         IN  shorter \cup {Append(q, e) : q \in shorter, e \in S}

(***************************************************************************)
(* Numbers with the two infinities, as bboxFromPolygon starts from them.    *)
(***************************************************************************)
Num(n) == [inf |-> 0, val |-> n]
PosInfinity == [inf |-> 1, val |-> 0]
NegInfinity == [inf |-> -1, val |-> 0]

\* a < b
Lt(a, b) == IF a.inf # b.inf THEN a.inf < b.inf ELSE a.inf = 0 /\ a.val < b.val

\* a <= b
Le(a, b) == a = b \/ Lt(a, b)

(***************************************************************************)
(* validation/schema.js: the coordinates member of demRequestSchema.        *)
(***************************************************************************)
Lons == {-2, 0, 1}
Lats == {-1, 3}

\* Coordinate pairs, and one array that is no pair.
Positions == {<<lon, lat>> : lon \in Lons, lat \in Lats} \cup {<<0>>}

Rings == SeqsUpTo(Positions, MaxRing)

Triangle == <<<<0, -1>>, <<1, -1>>, <<0, 3>>>>

\* The coordinates of a request body: absent, no ring, one ring, or an outer
\* ring and a hole.
Bodies ==
    {[present |-> FALSE, coordinates |-> <<>>], [present |-> TRUE, coordinates |-> <<>>]}
    \cup {[present |-> TRUE, coordinates |-> <<r>>] : r \in Rings}
    \cup {[present |-> TRUE, coordinates |-> <<r, h>>] : r \in Rings, h \in {<<>>, Triangle}}

\* line 4: Joi.array().items(Joi.number()).length(2)
coordinateSchema(p) == Len(p) = 2

\* line 7: Joi.array().items(coordinateSchema).min(3)
linearRingSchema(r) == Len(r) >= 3 /\ \A i \in 1..Len(r) : coordinateSchema(r[i])

\* line 28: Joi.array().items(linearRingSchema).required()
coordinatesSchema(b) ==
    b.present /\ \A i \in 1..Len(b.coordinates) : linearRingSchema(b.coordinates[i])

(***************************************************************************)
(* OpenEOService.bboxFromPolygon, FileStorageService.getBboxFromCoordinates *)
(***************************************************************************)
NoBox == [kind |-> "none", west |-> Num(0), south |-> Num(0), east |-> Num(0), north |-> Num(0)]

\* line 303: polygon?.[0] || []
FirstRing(polygon) == IF Len(polygon) >= 1 THEN polygon[1] ELSE <<>>

\* lines 309-312 with the east update comparing the wrong way round.
ExtendSwapped(box, p) ==
    LET lon == Num(p[1])
        lat == Num(p[2])
    IN  [kind |-> "box",
         west  |-> IF Lt(lon, box.west) THEN lon ELSE box.west,
         east  |-> IF Lt(lon, box.east) THEN lon ELSE box.east,
         south |-> IF Lt(lat, box.south) THEN lat ELSE box.south,
         north |-> IF Lt(box.north, lat) THEN lat ELSE box.north]

\* lines 309-312: one iteration of the loop.
Extend(box, p) ==
    LET lon == Num(p[1])
        lat == Num(p[2])
    IN  [kind |-> "box",
         west  |-> IF Lt(lon, box.west) THEN lon ELSE box.west,
         east  |-> IF Lt(box.east, lon) THEN lon ELSE box.east,
         south |-> IF Lt(lat, box.south) THEN lat ELSE box.south,
         north |-> IF Lt(box.north, lat) THEN lat ELSE box.north]

\* lines 304-307: the box before the loop.
EmptyBox ==
    [kind |-> "box", west |-> PosInfinity, south |-> PosInfinity,
     east |-> NegInfinity, north |-> NegInfinity]

\* lines 308-313: the loop over the ring, in order.
RECURSIVE ScanRing(_, _)
ScanRing(box, ring) ==
    IF Len(ring) = 0 THEN box
    ELSE ScanRing(Extend(box, Head(ring)), Tail(ring))

\* openeoService.js lines 301-315
bboxFromPolygon(polygon) == ScanRing(EmptyBox, FirstRing(polygon))

\* fileStorageService.js lines 47-62
getBboxFromCoordinates(coords) == ScanRing(EmptyBox, FirstRing(coords))

(***************************************************************************)
(* Strings: String.prototype.toLowerCase and String.prototype.includes.     *)
(***************************************************************************)
UpperCase == "ABCDEFGHIJKLMNOPQRSTUVWXYZ"
LowerCase == "abcdefghijklmnopqrstuvwxyz"

CharAt(s, i) == SubSeq(s, i, i)

\* The lower-case letter of every upper-case letter.
LowerOf ==
    [ch \in {CharAt(UpperCase, i) : i \in 1..Len(UpperCase)} |->
        CharAt(LowerCase, CHOOSE i \in 1..Len(UpperCase) : CharAt(UpperCase, i) = ch)]

LowerChar(ch) == IF ch \in DOMAIN LowerOf THEN LowerOf[ch] ELSE ch

RECURSIVE ToLowerCase(_)
ToLowerCase(s) ==
    IF Len(s) = 0 THEN ""
    ELSE LowerChar(CharAt(s, 1)) \o ToLowerCase(SubSeq(s, 2, Len(s)))

Includes(s, sub) ==
    \E i \in 1..(Len(s) - Len(sub) + 1) : SubSeq(s, i, i + Len(sub) - 1) = sub

\* (x || ""): a missing member reads as the empty string.
OrEmpty(x) == IF x = Undefined \/ x = Null THEN "" ELSE x

(***************************************************************************)
(* OpenEOService.resolveDemCollectionId                                     *)
(***************************************************************************)
FallbackId == "USGS/SRTMGL1_003"

\* knownDemIds with the last two ids in the other order.
knownDemIdsReordered ==
    <<"USGS/SRTMGL1_003",
      "CGIAR/SRTM90_V4",
      "NASA/NASADEM_HGT/001",
      "USGS/GMTED2010",
      "NOAA/NGDC/ETOPO1",
      "JAXA/ALOS/AW3D30/V3_2",
      "COPERNICUS/DEM/GLO-30">>

\* lines 222-230
knownDemIds ==
    <<"USGS/SRTMGL1_003",
      "CGIAR/SRTM90_V4",
      "NASA/NASADEM_HGT/001",
      "USGS/GMTED2010",
      "NOAA/NGDC/ETOPO1",
      "COPERNICUS/DEM/GLO-30",
      "JAXA/ALOS/AW3D30/V3_2">>

\* lines 189-197 (no caller)
collectionFromProduct(p) ==
    IF p \in {"GLO-30", "GLO-90", "EEA-10"}
    THEN "COPERNICUS/DEM/" \o p
    ELSE "COPERNICUS/DEM/GLO-30"

\* lines 206-207 (computed, never read)
Want(p) == IF p = "GLO-90" THEN "90" ELSE IF p = "EEA-10" THEN "10" ELSE "30"

Products == {"GLO-30", "GLO-90", "EEA-10"}

\* Entries a provider's catalog may list: {id, title, description}, the last
\* two optional.
CatalogEntries ==
    {[id |-> "USGS/SRTMGL1_003", title |-> "SRTM 30m", description |-> Undefined],
     [id |-> "COPERNICUS/DEM/GLO-30", title |-> "Copernicus DEM", description |-> Undefined],
     [id |-> "JAXA/ALOS/AW3D30/V3_2", title |-> Undefined, description |-> Undefined],
     [id |-> "COPERNICUS/DEM/GLO-90", title |-> Undefined, description |-> Undefined],
     [id |-> "SENTINEL2_L2A", title |-> "Sentinel-2 L2A", description |-> "Surface reflectance"],
     [id |-> "TERRAIN_30", title |-> "Terrain", description |-> "Digital Elevation Model"],
     [id |-> "CANOPY", title |-> "Vegetation Height", description |-> Undefined],
     [id |-> "SRTM_SOSD", title |-> Undefined, description |-> Undefined],
     [id |-> "LAND_SURFACE", title |-> "Surface height", description |-> "Phenology metrics"]}

Catalogs == SeqsUpTo(CatalogEntries, MaxCatalog)

\* What GET /collections can answer: a rejection (network error or non-2xx),
\* a 2xx without a collections member, a 2xx with a list.
CatalogReplies ==
    {[status |-> 503, hasCollections |-> FALSE, collections |-> <<>>],
     [status |-> 200, hasCollections |-> FALSE, collections |-> <<>>]}
    \cup {[status |-> 200, hasCollections |-> TRUE, collections |-> l] : l \in Catalogs}

NoCatalogReply == [status |-> 0, hasCollections |-> FALSE, collections |-> <<>>]
NotResolved == [outcome |-> "none", id |-> Null, line |-> 0]

\* line 205: resp.data.collections || []
CollectionList(reply) == IF reply.hasCollections THEN reply.collections ELSE <<>>

\* line 236: list.some((c) => c.id === testId)
Exists(list, testId) == \E i \in 1..Len(list) : list[i].id = testId

\* lines 251-261
hasDemKeywords(c) ==
    LET id == ToLowerCase(OrEmpty(c.id))
        title == ToLowerCase(OrEmpty(c.title))
        description == ToLowerCase(OrEmpty(c.description))
    IN  \/ Includes(id, "dem")
        \/ Includes(title, "dem")
        \/ Includes(id, "elevation")
        \/ Includes(title, "elevation")
        \/ Includes(id, "height")
        \/ Includes(title, "height")
        \/ Includes(id, "srtm")
        \/ Includes(title, "srtm")
        \/ Includes(description, "elevation")
        \/ Includes(description, "digital elevation")

\* lines 264-270
notVegetation(c) ==
    LET id == ToLowerCase(OrEmpty(c.id))
        title == ToLowerCase(OrEmpty(c.title))
        description == ToLowerCase(OrEmpty(c.description))
    IN  /\ ~Includes(id, "sosd")
        /\ ~Includes(id, "eosd")
        /\ ~Includes(id, "vegetation")
        /\ ~Includes(title, "vegetation")
        /\ ~Includes(description, "phenology")
        /\ ~Includes(description, "vegetation")

\* demCandidates without the vegetation exclusion.
demCandidatesKeywordsOnly(list) == SelectSeq(list, LAMBDA c : hasDemKeywords(c))

\* lines 246-273: list.filter(...)
demCandidates(list) == SelectSeq(list, LAMBDA c : hasDemKeywords(c) /\ notVegetation(c))

\* lines 235-243: the first known id, in the order of knownDemIds, that the
\* list contains; 0 when there is none.
FirstKnownIndex(list) ==
    IF \E k \in 1..Len(knownDemIds) : Exists(list, knownDemIds[k])
    THEN CHOOSE k \in 1..Len(knownDemIds) :
            /\ Exists(list, knownDemIds[k])
            /\ \A j \in 1..(k - 1) : ~Exists(list, knownDemIds[j])
    ELSE 0

\* lines 201-291: the try block once the request has resolved.
ResolveFromList(list) ==
    IF FirstKnownIndex(list) # 0
    THEN [outcome |-> "returned", id |-> knownDemIds[FirstKnownIndex(list)], line |-> 239]
    ELSE IF Len(demCandidates(list)) > 0
         THEN [outcome |-> "returned", id |-> demCandidates(list)[1].id, line |-> 285]
         ELSE [outcome |-> "returned", id |-> FallbackId, line |-> 291]

\* The catch block rethrowing instead of returning the fallback.
ResolveCatchRethrows == [outcome |-> "thrown", id |-> Null, line |-> 297]

\* lines 292-298: the catch block.
ResolveCatch == [outcome |-> "returned", id |-> FallbackId, line |-> 297]

\* ResolveOutcome falling back to the default id of the product.
ResolveOutcomeByProduct(p, reply) ==
    IF AxiosResolves(reply)
    THEN ResolveFromList(CollectionList(reply))
    ELSE [ResolveCatch EXCEPT !.id = collectionFromProduct(p)]

\* lines 199-299: how the call ends, given the answer to GET /collections.
ResolveOutcome(p, reply) ==
    IF AxiosResolves(reply)
    THEN ResolveFromList(CollectionList(reply))
    ELSE ResolveCatch

(***************************************************************************)
(* transformDemData (demRoutes.js).  Elevations are counted in thousandths  *)
(* of a metre, one decimal more than the two the function keeps, and        *)
(* coordinates in units of 1e-7 degree, one decimal more than the six it    *)
(* keeps, so that its roundings change values.  Arithmetic is exact; the    *)
(* sampled values stay away from the ties of Math.round.                    *)
(***************************************************************************)
Milli == 10 * 10 * 10

\* Math.round(v * 100) / 100 and Math.round(v * 1000000) / 1000000 in these
\* units: to the nearest multiple of ten, a tie going up.
RoundTen(v) == ((v + 5) \div 10) * 10

\* The same rounding of the quotient num / den, den > 0.
RoundTenRatio(num, den) == ((2 * num + 10 * den) \div (20 * den)) * 10

\* The values a grid cell can hold.
Elevation(v) == [kind |-> "num", val |-> v]
NullCell == [kind |-> "null", val |-> 0]
NaNCell == [kind |-> "nan", val |-> 0]
TextCell == [kind |-> "text", val |-> 0]
InfinityCell == [kind |-> "inf", val |-> 0]
NegInfinityCell == [kind |-> "ninf", val |-> 0]

\* isNaN(e): NaN itself and whatever Number() turns into NaN.
IsNaN(e) == e.kind \in {"nan", "text"}

\* e !== n, e > n and e < n for a number n.
StrictNotEqual(e, n) == e.kind # "num" \/ e.val # n
GreaterThan(e, n) == (e.kind = "num" /\ e.val > n) \/ e.kind = "inf"
LessThan(e, n) == (e.kind = "num" /\ e.val < n) \/ e.kind = "ninf"

\* isValidElevation with both bounds of the range included.
isValidElevationInclusive(elevation) ==
    /\ elevation.kind # "null"
    /\ elevation.kind # "undefined"
    /\ ~IsNaN(elevation)
    /\ StrictNotEqual(elevation, (39 * Milli) \div 2)
    /\ StrictNotEqual(elevation, -9999 * Milli)
    /\ StrictNotEqual(elevation, -32768 * Milli)
    /\ ~LessThan(elevation, -1000 * Milli)
    /\ ~GreaterThan(elevation, 10000 * Milli)

\* lines 42-50
isValidElevation(elevation) ==
    /\ elevation.kind # "null"
    /\ elevation.kind # "undefined"
    /\ ~IsNaN(elevation)
    /\ StrictNotEqual(elevation, (39 * Milli) \div 2)
    /\ StrictNotEqual(elevation, -9999 * Milli)
    /\ StrictNotEqual(elevation, -32768 * Milli)
    /\ GreaterThan(elevation, -1000 * Milli)
    /\ LessThan(elevation, 10000 * Milli)

\* lines 22-23: coords?.x?.data || [] ; a missing member reads as [].
OrEmptyArray(axis) ==
    IF axis.kind = "missing" THEN [kind |-> "array", data |-> <<>>] ELSE axis

\* [...axis] of lines 107-110 throws a TypeError on what is not iterable.
SpreadThrows(axis) == axis.kind # "array"

\* ScanRow taking a valid cell whether or not the axes reach it.
RECURSIVE ScanRowIgnoresAxes(_, _, _, _, _)
ScanRowIgnoresAxes(row, yIdx, xIdx, xCoords, yCoords) ==
    IF xIdx >= Len(row.cells)
    THEN <<>>
    ELSE LET elevation == row.cells[xIdx + 1]
             rest == ScanRowIgnoresAxes(row, yIdx, xIdx + 1, xCoords, yCoords)
         IN  IF isValidElevation(elevation)
             THEN <<[x |-> IF xIdx < Len(xCoords.data)
                           THEN RoundTen(xCoords.data[xIdx + 1]) ELSE 0,
                     y |-> IF yIdx < Len(yCoords.data)
                           THEN RoundTen(yCoords.data[yIdx + 1]) ELSE 0,
                     elevation |-> RoundTen(elevation.val),
                     pushed |-> elevation.val]>> \o rest
             ELSE rest

\* lines 38-65: the cells of one row from xIdx on, in order; every entry
\* is the point of line 57 with the value pushed at line 63.
RECURSIVE ScanRow(_, _, _, _, _)
ScanRow(row, yIdx, xIdx, xCoords, yCoords) ==
    IF xIdx >= Len(row.cells)
    THEN <<>>
    ELSE LET elevation == row.cells[xIdx + 1]
             rest == ScanRow(row, yIdx, xIdx + 1, xCoords, yCoords)
         IN  IF /\ isValidElevation(elevation)
                /\ xIdx < Len(xCoords.data)
                /\ yIdx < Len(yCoords.data)
             THEN <<[x |-> RoundTen(xCoords.data[xIdx + 1]),
                     y |-> RoundTen(yCoords.data[yIdx + 1]),
                     elevation |-> RoundTen(elevation.val),
                     pushed |-> elevation.val]>> \o rest
             ELSE rest

\* lines 34-66: the rows from yIdx on; a row that is no array is skipped.
RECURSIVE ScanGrid(_, _, _, _)
ScanGrid(elevationArray, yIdx, xCoords, yCoords) ==
    IF yIdx >= Len(elevationArray)
    THEN <<>>
    ELSE LET row == elevationArray[yIdx + 1]
             rest == ScanGrid(elevationArray, yIdx + 1, xCoords, yCoords)
         IN  IF ~row.isArray
             THEN rest
             ELSE ScanRow(row, yIdx, 0, xCoords, yCoords) \o rest

\* Math.min(...s) and Math.max(...s) of a non-empty list of numbers.
MathMin(s) == CHOOSE v \in {s[i] : i \in 1..Len(s)} :
                  \A i \in 1..Len(s) : v <= s[i]
MathMax(s) == CHOOSE v \in {s[i] : i \in 1..Len(s)} :
                  \A i \in 1..Len(s) : v >= s[i]

\* lines 76 and 86: reduce((sum, val) => sum + val, 0)
RECURSIVE Sum(_)
Sum(s) == IF s = <<>> THEN 0 ELSE s[1] + Sum(Tail(s))

\* line 79: [...s].sort((a, b) => a - b)
RECURSIVE Insert(_, _)
Insert(v, s) ==
    IF s = <<>> THEN <<v>>
    ELSE IF v <= s[1] THEN <<v>> \o s
    ELSE <<s[1]>> \o Insert(v, Tail(s))

RECURSIVE SortNumeric(_)
SortNumeric(s) == IF s = <<>> THEN <<>> ELSE Insert(s[1], SortNumeric(Tail(s)))

\* lines 80-83 and 96, with the median taken as the lower of the two
\* middle values whatever the count.
MedianLowerMiddle(sorted) == RoundTen(sorted[(Len(sorted) + 1) \div 2])

\* lines 80-83 and 96: the median, rounded.
Median(sorted) ==
    IF Len(sorted) % 2 = 0
    THEN RoundTenRatio(sorted[Len(sorted) \div 2] + sorted[Len(sorted) \div 2 + 1], 2)
    ELSE RoundTen(sorted[Len(sorted) \div 2 + 1])

\* lines 73-100: the statistics object; stddev, a square root, is left out.
Statistics(validElevations) ==
    [min |-> RoundTen(MathMin(validElevations)),
     max |-> RoundTen(MathMax(validElevations)),
     mean |-> RoundTenRatio(Sum(validElevations), Len(validElevations)),
     median |-> Median(SortNumeric(validElevations)),
     count |-> Len(validElevations)]

NoStatistics == [min |-> 0, max |-> 0, mean |-> 0, median |-> 0, count |-> 0]

\* lines 101-111: gridSize and bounds.
Metadata(xCoords, yCoords) ==
    [width |-> Len(xCoords.data), height |-> Len(yCoords.data),
     minX |-> MathMin(xCoords.data), maxX |-> MathMax(xCoords.data),
     minY |-> MathMin(yCoords.data), maxY |-> MathMax(yCoords.data)]

NoMetadata == [width |-> 0, height |-> 0, minX |-> 0, maxX |-> 0, minY |-> 0, maxY |-> 0]

\* What a call of transformDemData yields: null, an object, or (inside the
\* try block only) an exception; line is where it left the function.
ReturnNull(line) ==
    [kind |-> "null", line |-> line, points |-> <<>>,
     statistics |-> NoStatistics, metadata |-> NoMetadata]

Thrown(line) ==
    [kind |-> "thrown", line |-> line, points |-> <<>>,
     statistics |-> NoStatistics, metadata |-> NoMetadata]

NotTransformed ==
    [kind |-> "none", line |-> 0, points |-> <<>>,
     statistics |-> NoStatistics, metadata |-> NoMetadata]

\* lines 12-114: the try block.
TransformTry(d) ==
    IF d.shape \in {"falsy", "noData", "dataNotArray"} THEN ReturnNull(13)
    ELSE IF d.shape = "bandNotArray" THEN ReturnNull(18)
    ELSE LET xCoords == OrEmptyArray(d.x)
             yCoords == OrEmptyArray(d.y)
             scanned == ScanGrid(d.band, 0, xCoords, yCoords)
             points == [i \in 1..Len(scanned) |->
                           [x |-> scanned[i].x, y |-> scanned[i].y,
                            elevation |-> scanned[i].elevation]]
             validElevations == [i \in 1..Len(scanned) |-> scanned[i].pushed]
         IN  IF Len(xCoords.data) = 0 \/ Len(yCoords.data) = 0 THEN ReturnNull(27)
             ELSE IF Len(validElevations) = 0 THEN ReturnNull(69)
             ELSE IF SpreadThrows(xCoords) THEN Thrown(107)
             ELSE IF SpreadThrows(yCoords) THEN Thrown(109)
             ELSE [kind |-> "result", line |-> 90, points |-> points,
                   statistics |-> Statistics(validElevations),
                   metadata |-> Metadata(xCoords, yCoords)]

\* lines 115-118 with the exception passed on to the caller.
TransformCatchRethrows(attempt) == attempt

\* lines 115-118: whatever the try block throws becomes null.
TransformCatch(attempt) ==
    IF attempt.kind = "thrown" THEN ReturnNull(117) ELSE attempt

\* lines 10-119
transformDemData(d) == TransformCatch(TransformTry(d))

\* The grids handed to transformDemData: cells in reading order, cut into
\* rows of the given width, behind a leading entry that is no array if lead.
RECURSIVE Chunk(_, _)
Chunk(flat, width) ==
    IF Len(flat) <= width
    THEN <<[isArray |-> TRUE, cells |-> flat]>>
    ELSE <<[isArray |-> TRUE, cells |-> SubSeq(flat, 1, width)]>>
         \o Chunk(SubSeq(flat, width + 1, Len(flat)), width)

NonArrayRow == [isArray |-> FALSE, cells |-> <<>>]

Band(flat, width, lead) ==
    IF lead THEN <<NonArrayRow>> \o Chunk(flat, width) ELSE Chunk(flat, width)

\* Coordinate axes: longitudes and latitudes with seven decimals.
XCoordinates == <<300000004, 300100006, 300200004, 300300006, 300400004>>
YCoordinates == <<-19999996, -20100004, -20200006, -20300004, -20400006>>

ArrayAxis(coordinates, n) == [kind |-> "array", data |-> SubSeq(coordinates, 1, n)]
MissingAxis == [kind |-> "missing", data |-> <<>>]
\* An object with a length member that is no array, as {"length": 2}.
LengthObjectAxis == [kind |-> "lengthObject", data |-> <<0, 0>>]

AxisPairs ==
    {[x |-> x, y |-> ArrayAxis(YCoordinates, n)] :
        x \in {MissingAxis, LengthObjectAxis,
               ArrayAxis(XCoordinates, 1), ArrayAxis(XCoordinates, 2)},
        n \in {1, 2}}
    \cup {[x |-> ArrayAxis(XCoordinates, 0), y |-> ArrayAxis(YCoordinates, 2)],
          [x |-> ArrayAxis(XCoordinates, 2), y |-> MissingAxis],
          [x |-> ArrayAxis(XCoordinates, 2), y |-> LengthObjectAxis]}

\* Cell values on every side of every test of isValidElevation.
CellValues ==
    {NullCell, NaNCell, TextCell, InfinityCell, NegInfinityCell,
     Elevation((39 * Milli) \div 2), Elevation(-9999 * Milli),
     Elevation(-32768 * Milli), Elevation(-1000 * Milli),
     Elevation(10000 * Milli), Elevation(1 - 1000 * Milli),
     Elevation(10000 * Milli - 1), Elevation(0), Elevation(12344)}

\* Cell values for the statistics: whole metres, fractions, a sentinel.
SampleValues ==
    {Elevation(0), Elevation(10 * Milli), Elevation(20 * Milli),
     Elevation(30 * Milli), Elevation(12344), Elevation(-5678),
     Elevation((39 * Milli) \div 2)}

Grid(band, axes) == [shape |-> "grid", band |-> band, x |-> axes.x, y |-> axes.y]

Malformed(shape) == [shape |-> shape, band |-> <<>>, x |-> MissingAxis, y |-> MissingAxis]

MalformedShapes == {"falsy", "noData", "dataNotArray", "bandNotArray"}

Layouts == {<<1, FALSE>>, <<2, FALSE>>, <<1, TRUE>>}

\* The payloads of the model: the malformed ones, grids of up to MaxCells
\* cells of any value in every layout over every pair of axes, and grids of
\* up to MaxSamples sample values in rows of two.
IsTransformInput(d) ==
    \/ \E s \in MalformedShapes : d = Malformed(s)
    \/ \E flat \in SeqsUpTo(CellValues, MaxCells) :
           \E layout \in Layouts : \E axes \in AxisPairs :
               d = Grid(Band(flat, layout[1], layout[2]), axes)
    \/ \E flat \in SeqsUpTo(SampleValues, MaxSamples) : \E n \in {1, 2} :
           d = Grid(Band(flat, 2, FALSE),
                    [x |-> ArrayAxis(XCoordinates, 2),
                     y |-> ArrayAxis(YCoordinates, n)])

(***************************************************************************)
(* POST /dem/clip after the payload is parsed (demRoutes.js lines 219-247). *)
(***************************************************************************)
NoResponse == [status |-> 0, fields |-> {}]

\* lines 222-239 with the enhanced members always present.
JsonResponseAlwaysEnhanced(transformedData, savedFileSuccess) ==
    [status |-> 200,
     fields |-> {"success", "rawData", "elevationPoints", "statistics", "metadata"}
                \cup (IF savedFileSuccess THEN {"savedFile"} ELSE {})]

\* lines 222-241: the members of the JSON answer.
JsonResponse(transformedData, savedFileSuccess) ==
    [status |-> 200,
     fields |-> {"success", "rawData"}
                \cup (IF transformedData.kind = "result"
                      THEN {"elevationPoints", "statistics", "metadata"}
                      ELSE {})
                \cup (IF savedFileSuccess THEN {"savedFile"} ELSE {})]

\* lines 242-247: the answer of the route's catch block.
InternalServerError == [status |-> 500, fields |-> {"error", "message"}]

\* No result has reached the route.
TransformIdle ==
    /\ demData = Malformed("falsy")
    /\ transformed = NotTransformed
    /\ response = NoResponse
    /\ transformPc = "idle"

(***************************************************************************)
(* Inbound requests: POST /ndvi/timeseries and POST /dem/clip, from the     *)
(* validation middleware to the response.                                   *)
(***************************************************************************)
Absent == "absent"

\* A date member as the client wrote it: absent, text that is no date, a
\* calendar day ("2020-01-02"), or an instant with a UTC offset
\* ("2020-01-01T23:00:00-01:00").
NoDate == [form |-> "absent", day |-> 0, hour |-> 0, offset |-> 0]
BadDate == [form |-> "invalid", day |-> 0, hour |-> 0, offset |-> 0]
Day(d) == [form |-> "day", day |-> d, hour |-> 0, offset |-> 0]
Instant(d, h, o) == [form |-> "instant", day |-> d, hour |-> h, offset |-> o]

\* Joi.date() converts the text to a Date; time is in hours UTC.
ToDate(text) ==
    IF text.form = "day" THEN [valid |-> TRUE, time |-> text.day * 24]
    ELSE IF text.form = "instant"
    THEN [valid |-> TRUE, time |-> text.day * 24 + text.hour - text.offset]
    ELSE [valid |-> FALSE, time |-> 0]

\* schema.js lines 11-12: Joi.date().required()
dateSchema(text) == text.form # "absent" /\ ToDate(text).valid

\* date-order-validation rejecting equal dates as well.
dateOrderValidationStrict(value) ==
    ~(ToDate(value.start_date).time >= ToDate(value.end_date).time)

\* schema.js lines 14-24: the custom rule; Date objects are truthy.
dateOrderValidation(value) ==
    ~(ToDate(value.start_date).time > ToDate(value.end_date).time)

\* schema.js lines 10-13: the keys of ndviRequestSchema; a key the schema
\* does not name is not allowed.
ndviKeysSchema(b) ==
    /\ dateSchema(b.start_date)
    /\ dateSchema(b.end_date)
    /\ coordinatesSchema(b.coordinates)
    /\ b.product = Absent /\ b.format = Absent /\ b.saveLocally = Absent

\* schema.js lines 10-24
ndviRequestSchema(b) == ndviKeysSchema(b) /\ dateOrderValidation(b)

\* schema.js line 29: Joi.string().valid("GLO-30", "GLO-90", "EEA-10")
productSchema(p) == p = Absent \/ p \in {"GLO-30", "GLO-90", "EEA-10"}

\* schema.js lines 27-32: the keys are coordinates and product only.
demRequestSchema(b) ==
    /\ coordinatesSchema(b.coordinates)
    /\ productSchema(b.product)
    /\ b.format = Absent /\ b.saveLocally = Absent
    /\ b.start_date = NoDate /\ b.end_date = NoDate

\* schema.js line 29: .default("GLO-30"), as in the value Joi returns.
demValue(b) == [b EXCEPT !.product = IF @ = Absent THEN "GLO-30" ELSE @]

\* The bodies of the model.
DateTexts == {NoDate, BadDate, Day(1), Day(2), Instant(1, 23, -1), Instant(2, 0, 2)}

CoordinateInputs ==
    {[present |-> FALSE, coordinates |-> <<>>],
     [present |-> TRUE, coordinates |-> <<Triangle>>],
     [present |-> TRUE, coordinates |-> <<SubSeq(Triangle, 1, 2)>>]}

NdviBodies ==
    [kind : {"ndvi"}, start_date : DateTexts, end_date : DateTexts,
     coordinates : CoordinateInputs, product : {Absent, "GLO-30"},
     format : {Absent}, saveLocally : {Absent}]

DemBodies ==
    [kind : {"dem"}, start_date : {NoDate}, end_date : {NoDate},
     coordinates : CoordinateInputs,
     product : {Absent, "GLO-30", "GLO-90", "EEA-10", "SRTM"},
     format : {Absent, "JSON", "GTiff", "PNG"}, saveLocally : {Absent, "true"}]

NoRequest ==
    [kind |-> "none", start_date |-> NoDate, end_date |-> NoDate,
     coordinates |-> [present |-> FALSE, coordinates |-> <<>>],
     product |-> Absent, format |-> Absent, saveLocally |-> Absent]

\* config.js line 9: process.env.NODE_ENV || "development"
ConfigNodeEnv(processEnv) == IF processEnv = Absent THEN "development" ELSE processEnv

\* The answers of the server: status, members of a JSON body, Content-Type
\* and the text of the message member.
NoAnswer == [status |-> 0, fields |-> {}, contentType |-> "", message |-> ""]

\* ndviRoutes.js lines 11-16, demRoutes.js lines 124-129
ValidationError ==
    [status |-> 400, fields |-> {"error", "details"},
     contentType |-> "application/json", message |-> ""]

\* demRoutes.js lines 242-247, ndviRoutes.js lines 34-40: error.message is
\* sent whatever the mode.
RouteCatch(error, env) ==
    [status |-> 500, fields |-> {"error", "message"},
     contentType |-> "application/json", message |-> error]

\* app.js lines 64-73: the global error handler.
GlobalErrorHandler(error, env) ==
    [status |-> 500, fields |-> {"error", "message"},
     contentType |-> "application/json",
     message |-> IF env = "development" THEN error ELSE "Something went wrong"]

\* openeoService.js lines 185 and 422: what the service throws.
ServiceError(kind) ==
    IF kind = "ndvi" THEN "Failed to get NDVI timeseries from OpenEO"
    ELSE "Failed to get DEM cutout from OpenEO"

\* openeoService.js line 317: format = "GTiff" for an undefined argument.
ServiceFormat(format) == IF format = Absent THEN "GTiff" ELSE format

\* openeoService.js line 406 and axios: the data of a 2xx answer to
\* POST /result; a payload asked for as an arraybuffer arrives as a Buffer,
\* which has no data member.
ResponseData(format, payload) ==
    IF ServiceFormat(format) = "JSON" THEN payload ELSE Malformed("noData")

\* fileStorageService.js lines 38-45: extensions[format] || ".bin"
getFileExtension(format) ==
    IF format = "GTiff" THEN ".tiff"
    ELSE IF format = "PNG" THEN ".png"
    ELSE IF format = "JSON" THEN ".json"
    ELSE ".bin"

\* demRoutes.js lines 156-241: the answer by the format of the body.
DemAnswer(format, text, savedFileSuccess) ==
    IF format = "GTiff"
    THEN [status |-> 200, fields |-> {}, contentType |-> "image/tiff", message |-> ""]
    ELSE IF format = "PNG"
    THEN [status |-> 200, fields |-> {}, contentType |-> "image/png", message |-> ""]
    ELSE [status |-> 200,
          fields |-> JsonResponse(transformDemData(text), savedFileSuccess).fields,
          contentType |-> "application/json", message |-> ""]

\* ndviRoutes.js line 33: res.json(result)
NdviAnswer ==
    [status |-> 200, fields |-> {"result"}, contentType |-> "application/json",
     message |-> ""]

\* The payloads the remote /result endpoint answers with.
ResultPayloads ==
    {Malformed("noData"),
     Grid(Band(<<Elevation(0), Elevation(10 * Milli)>>, 2, FALSE),
          [x |-> ArrayAxis(XCoordinates, 2), y |-> ArrayAxis(YCoordinates, 1)])}

\* The answers of the remote endpoints that the request flow is run against.
FlowCatalogReplies ==
    {[status |-> 503, hasCollections |-> FALSE, collections |-> <<>>],
     [status |-> 200, hasCollections |-> FALSE, collections |-> <<>>],
     [status |-> 200, hasCollections |-> TRUE,
      collections |-> <<[id |-> "COPERNICUS/DEM/GLO-30", title |-> "Copernicus DEM",
                         description |-> Undefined]>>]}

\* The one caller of getAccessToken in the flow of a single request.
RequestCaller == CHOOSE c \in Callers : \A d \in Callers : c <= d

\* No request has been received.
RequestIdle ==
    /\ request = NoRequest
    /\ nodeEnv = Absent
    /\ reqPc = "idle"
    /\ answer = NoAnswer
    /\ resultCalls = 0
    /\ resultReply = "none"

(***************************************************************************)
(* POST /dem/clip, JSON branch (demRoutes.js lines 186-217): the textual    *)
(* payload is cleaned by three regular expressions and parsed.              *)
(***************************************************************************)
\* \s* from position i on: the first position that holds no white space.
RECURSIVE SkipSpaces(_, _)
SkipSpaces(s, i) ==
    IF i <= Len(s) /\ CharAt(s, i) = " " THEN SkipSpaces(s, i + 1) ELSE i

StartsWithAt(s, i, lit) ==
    i + Len(lit) - 1 <= Len(s) /\ SubSeq(s, i, i + Len(lit) - 1) = lit

\* /:\s*token\s*([,\}])/ tried at position i: the position of the captured
\* delimiter, or 0 if there is no match at i.
MatchMember(s, i, token) ==
    IF ~StartsWithAt(s, i, ":") THEN 0
    ELSE LET j == SkipSpaces(s, i + 1)
         IN  IF ~StartsWithAt(s, j, token) THEN 0
             ELSE LET k == SkipSpaces(s, j + Len(token))
                  IN  IF StartsWithAt(s, k, ",") \/ StartsWithAt(s, k, "}")
                      THEN k
                      ELSE 0

\* lines 192-194: s.replace(/:\s*token\s*([,\}])/g, ": null$1") from i on.
RECURSIVE ReplaceMember(_, _, _)
ReplaceMember(s, i, token) ==
    IF i > Len(s) THEN ""
    ELSE LET k == MatchMember(s, i, token)
         IN  IF k > 0
             THEN ": null" \o CharAt(s, k) \o ReplaceMember(s, k + 1, token)
             ELSE CharAt(s, i) \o ReplaceMember(s, i + 1, token)

\* lines 191-194
CleanedData(text) ==
    ReplaceMember(ReplaceMember(ReplaceMember(text, 1, "NaN"), 1, "Infinity"),
                  1, "-Infinity")

\* s.replace(/lit/g, by) from i on, as line 206 replaces /NaN/g.
RECURSIVE ReplaceAll(_, _, _, _)
ReplaceAll(s, i, lit, by) ==
    IF i > Len(s) THEN ""
    ELSE IF StartsWithAt(s, i, lit)
    THEN by \o ReplaceAll(s, i + Len(lit), lit, by)
    ELSE CharAt(s, i) \o ReplaceAll(s, i + 1, lit, by)

\* A parsed value is written as its JSON text without white space.
RemoveSpaces(s) == ReplaceAll(s, 1, " ", "")

\* line 196: JSON.parse throws a SyntaxError on NaN and Infinity.
JsonParse(text) ==
    IF Includes(text, "NaN") \/ Includes(text, "Infinity")
    THEN [kind |-> "thrown", text |-> "", by |-> "JSON.parse"]
    ELSE [kind |-> "object", text |-> RemoveSpaces(text), by |-> "JSON.parse"]

\* lines 205-208: new Function("return " + text)() evaluates the object
\* literal; Infinity is a JavaScript number and stays in the value.
SafeEval(text) == [kind |-> "object", text |-> RemoveSpaces(text), by |-> "Function"]

\* lines 186-217: parsedData for a textual payload.
ParsedData(text) ==
    LET parsed == JsonParse(CleanedData(text))
    IN  IF parsed.kind # "thrown" THEN parsed
        ELSE IF Includes(text, "\"nodata\":NaN")
        THEN SafeEval(ReplaceAll(text, 1, "NaN", "null"))
        ELSE [kind |-> "string", text |-> text, by |-> "fallback"]

NotParsed == [kind |-> "none", text |-> "", by |-> ""]

\* The textual payloads of the model: an object of two members, written
\* with or without white space, whose values are numbers, the non-standard
\* tokens, arrays and objects holding them.
PayloadValues ==
    {"1", "NaN", "Infinity", "-Infinity", "[NaN,1]", "[1,Infinity]",
     "[-Infinity]", "[[1,NaN]]", "{\"c\":NaN}"}

Member(key, colon, value, pad) == "\"" \o key \o "\"" \o colon \o value \o pad

IsPayload(text) ==
    \E key \in {"a", "nodata"} : \E colon \in {":", ": "} : \E pad \in {"", " "} :
        \E comma \in {",", ", "} : \E v \in PayloadValues : \E w \in PayloadValues :
            text = "{" \o Member(key, colon, v, pad) \o comma
                       \o Member("b", colon, w, pad) \o "}"

(***************************************************************************)
(* The process graphs of openeoService.js: a graph is a record with one     *)
(* member per node, a node a record of process_id, arguments and, where    *)
(* the code writes it, result.                                              *)
(***************************************************************************)

\* openeoService.js lines 53-67: loadFields
loadFields(coordinates) ==
    [type |-> "FeatureCollection",
     features |-> <<[type |-> "Feature",
                     geometry |-> [type |-> "Polygon",
                                   coordinates |-> coordinates]]>>]

\* lines 74-75: new Date(d).toISOString().split("T")[0], the UTC day of the
\* instant; a Date counts hours here (ToDate).
ISODate(date) == date.time \div 24

\* lines 97-103
arrayelement1IndexZero ==
    [process_id |-> "array_element",
     arguments |-> [data |-> [from_parameter |-> "data"], index |-> 0]]

arrayelement1 ==
    [process_id |-> "array_element",
     arguments |-> [data |-> [from_parameter |-> "data"], index |-> 1]]

\* lines 104-110
arrayelement2 ==
    [process_id |-> "array_element",
     arguments |-> [data |-> [from_parameter |-> "data"], index |-> 0]]

\* lines 111-117
subtract1 ==
    [process_id |-> "subtract",
     arguments |-> [x |-> [from_node |-> "arrayelement1"],
                    y |-> [from_node |-> "arrayelement2"]]]

\* lines 118-124
add1 ==
    [process_id |-> "add",
     arguments |-> [x |-> [from_node |-> "arrayelement1"],
                    y |-> [from_node |-> "arrayelement2"]]]

\* lines 125-132
divide1 ==
    [process_id |-> "divide",
     arguments |-> [x |-> [from_node |-> "subtract1"],
                    y |-> [from_node |-> "add1"]],
     result |-> TRUE]

\* lines 144-150, and 351-359 of getDEMCutout
MeanReducer(name) ==
    [process_graph |->
        [n \in {name} |->
            [process_id |-> "mean",
             arguments |-> [data |-> [from_parameter |-> "data"]],
             result |-> TRUE]]]

\* lines 80-156: the processGraph of getNDVITimeseries
ndviProcessGraph(coordinates, startDate, endDate) ==
    [loadcollection1 |->
        [process_id |-> "load_collection",
         arguments |-> [bands |-> <<"B04", "B08">>,
                        id |-> "SENTINEL2_L2A",
                        spatial_extent |-> Null,
                        temporal_extent |-> <<ISODate(startDate), ISODate(endDate)>>]],
     reducedimension1 |->
        [process_id |-> "reduce_dimension",
         arguments |-> [data |-> [from_node |-> "loadcollection1"],
                        dimension |-> "bands",
                        reducer |-> [process_graph |->
                            [arrayelement1 |-> arrayelement1,
                             arrayelement2 |-> arrayelement2,
                             subtract1 |-> subtract1,
                             add1 |-> add1,
                             divide1 |-> divide1]]]],
     aggregatespatial1 |->
        [process_id |-> "aggregate_spatial",
         arguments |-> [data |-> [from_node |-> "reducedimension1"],
                        geometries |-> loadFields(coordinates),
                        reducer |-> MeanReducer("mean1")],
         result |-> TRUE]]

\* lines 327-333: formatMap[format] || "GTiff"
openeoFormat(format) ==
    IF format \in {"GTiff", "PNG", "JSON"} THEN format ELSE "GTiff"

\* lines 378-384 and 341-347: the load node of both shapes
DemLoad(collectionId, box) ==
    [process_id |-> "load_collection",
     arguments |-> [id |-> collectionId, spatial_extent |-> box]]

\* lines 385-392 and 366-373: the save node
DemSave(from, format) ==
    [process_id |-> "save_result",
     arguments |-> [data |-> [from_node |-> from], format |-> format],
     result |-> TRUE]

\* lines 336-394, the graph with the reduction in both shapes
demProcessGraphAlwaysReduced(format, collectionId, box) ==
    [load |-> DemLoad(collectionId, box),
     reduce |-> [process_id |-> "reduce_dimension",
                 arguments |-> [data |-> [from_node |-> "load"],
                                dimension |-> "t",
                                reducer |-> MeanReducer("mean")]],
     save |-> DemSave("reduce", openeoFormat(format))]

\* lines 336-394: the processGraph of getDEMCutout; format is the parameter
\* after its default of line 317
demProcessGraph(format, collectionId, box) ==
    IF format = "JSON"
    THEN [load |-> DemLoad(collectionId, box),
          reduce |-> [process_id |-> "reduce_dimension",
                      arguments |-> [data |-> [from_node |-> "load"],
                                     dimension |-> "t",
                                     reducer |-> MeanReducer("mean")]],
          save |-> DemSave("reduce", "JSON")]
    ELSE [load |-> DemLoad(collectionId, box),
          save |-> DemSave("load", openeoFormat(format))]

\* The arguments of a call that builds a graph.
NoGraphArgs ==
    [call |-> "none", format |-> Absent, collectionId |-> "", box |-> NoBox,
     coordinates |-> <<>>, startDate |-> ToDate(NoDate), endDate |-> ToDate(NoDate)]

NoGraph == [none |-> Null]

\* No graph has been built.
GraphIdle ==
    /\ graphArgs = NoGraphArgs
    /\ processGraph = NoGraph

(***************************************************************************)
(* FileStorageService.getDemFile / deleteDemFile behind                     *)
(* GET and DELETE /dem/files/:filename.  A path is the sequence of its      *)
(* segments; a route parameter is a sequence of pieces of text, "%2F"       *)
(* being the encoded separator.                                             *)
(***************************************************************************)

\* fileStorageService.js line 6: the directory of the module
Dirname == <<"app", "src", "services">>

\* The pieces a :filename parameter is written with.
NamePieces == {"dem.tiff", "..", "%2F", "notes.txt"}

\* express: a route parameter is handed over after decodeURIComponent.
DecodeParam(raw) == [i \in DOMAIN raw |-> IF raw[i] = "%2F" THEN "/" ELSE raw[i]]

\* `${filename}.meta.json` of lines 160 and 185
WithSuffix(filename, suffix) == Append(filename, suffix)

RECURSIVE SplitFrom(_, _, _, _)
\* The segments of a text: its pieces between separators, joined.
SplitFrom(text, i, segment, done) ==
    IF i > Len(text) THEN Append(done, segment)
    ELSE IF text[i] = "/" THEN SplitFrom(text, i + 1, "", Append(done, segment))
    ELSE SplitFrom(text, i + 1, segment \o text[i], done)

RECURSIVE Normalize(_, _, _)
\* path.normalize: "" and "." are dropped, ".." leaves the directory reached.
Normalize(segments, i, reached) ==
    IF i > Len(segments) THEN reached
    ELSE IF segments[i] \in {"", "."} THEN Normalize(segments, i + 1, reached)
    ELSE IF segments[i] = ".."
    THEN Normalize(segments, i + 1,
                   IF reached = <<>> THEN reached
                   ELSE SubSeq(reached, 1, Len(reached) - 1))
    ELSE Normalize(segments, i + 1, Append(reached, segments[i]))

\* path.join(dir, text)
PathJoin(dir, text) == Normalize(dir \o SplitFrom(text, 1, "", <<>>), 1, <<>>)

\* lines 11-12 of the constructor
baseDir == PathJoin(Dirname, <<"..", "/", "..", "/", "storage">>)
demDir == PathJoin(baseDir, <<"dem">>)

\* The files on disk when the server starts: one saved cutout with its
\* sidecar, and files that are not cutouts next to the DEM directory.
InitialFiles ==
    {demDir \o <<"dem.tiff">>, demDir \o <<"dem.tiff.meta.json">>,
     baseDir \o <<"notes.txt">>, baseDir \o <<"notes.txt.meta.json">>}

IsDirectory(disk, path) ==
    \E f \in disk : Len(f) > Len(path) /\ SubSeq(f, 1, Len(path)) = path

\* fs.existsSync
ExistsSync(disk, path) == path \in disk \/ IsDirectory(disk, path)

Read(path) == [op |-> "read", path |-> path]
Unlink(path) == [op |-> "unlink", path |-> path]

\* lines 157-180: getDemFile; found is fileInfo being an object, reads the
\* files read on the way (readFileSync of a directory throws into the catch)
getDemFile(disk, filename) ==
    LET filePath == PathJoin(demDir, filename)
        metadataPath == PathJoin(demDir, WithSuffix(filename, ".meta.json"))
    IN  IF ~ExistsSync(disk, filePath)
        THEN [found |-> FALSE, filePath |-> filePath, reads |-> {}]
        ELSE IF ~ExistsSync(disk, metadataPath)
        THEN [found |-> TRUE, filePath |-> filePath, reads |-> {}]
        ELSE IF metadataPath \in disk
        THEN [found |-> TRUE, filePath |-> filePath, reads |-> {Read(metadataPath)}]
        ELSE [found |-> FALSE, filePath |-> filePath, reads |-> {}]

\* lines 182-202: deleteDemFile; unlinkSync of a directory throws into the
\* catch, which answers success: false
deleteDemFile(disk, filename) ==
    LET filePath == PathJoin(demDir, filename)
        metadataPath == PathJoin(demDir, WithSuffix(filename, ".meta.json"))
    IN  IF ExistsSync(disk, filePath) /\ filePath \notin disk
        THEN [success |-> FALSE, unlinked |-> {}]
        ELSE IF ExistsSync(disk, metadataPath) /\ metadataPath \notin disk
        THEN [success |-> FALSE, unlinked |-> {filePath} \cap disk]
        ELSE [success |-> filePath \in disk,
              unlinked |-> {filePath, metadataPath} \cap disk]

NoFileRequest == [method |-> "none", filename |-> <<>>]

\* The server has started and no file request has arrived.
StorageIdle ==
    /\ storedFiles = InitialFiles
    /\ fileRequest = NoFileRequest
    /\ fileAnswer = 0
    /\ touched = {}

\* No payload has arrived.
SanitizeIdle ==
    /\ data = ""
    /\ parsedData = NotParsed

\* The resolver before any call.
ResolverIdle ==
    /\ product = "GLO-30"
    /\ catalogReply = NoCatalogReply
    /\ resolverPc = "idle"
    /\ resolved = NotResolved

\* lines 5-11: the constructor; no call has been made.
TokenIdle ==
    /\ now = 1
    /\ accessToken = Null
    /\ tokenExpiry = NullExpiry
    /\ pc = [c \in Callers |-> "idle"]
    /\ result = [c \in Callers |-> Null]
    /\ tokenResponse = [c \in Callers |-> NoReply]
    /\ capRequests = [c \in Callers |-> 0]
    /\ tokRequests = [c \in Callers |-> 0]

\* No DEM request has been received.
BboxIdle ==
    /\ body = [present |-> FALSE, coordinates |-> <<>>]
    /\ validation = "pending"
    /\ bbox = NoBox
    /\ storageBbox = NoBox

Init ==
    /\ TokenIdle
    /\ GraphIdle
    /\ StorageIdle
    /\ ResolverIdle
    /\ BboxIdle
    /\ TransformIdle
    /\ RequestIdle
    /\ SanitizeIdle

\* The clock advances between any two steps.
Tick ==
    /\ \E t \in Instants : t > now /\ now' = t
    /\ UNCHANGED <<accessToken, tokenExpiry, pc, result, tokenResponse,
                   capRequests, tokRequests>>
    /\ UNCHANGED nonTokenVars

\* lines 13-22: the call; it returns the cached token or issues the
\* capabilities request and suspends at the first await.
GetAccessToken(c) ==
    /\ pc[c] = "idle"
    /\ IF CacheHit
       THEN /\ pc' = [pc EXCEPT ![c] = "returnedCached"]
            /\ result' = [result EXCEPT ![c] = accessToken]
            /\ UNCHANGED capRequests
       ELSE /\ pc' = [pc EXCEPT ![c] = "awaitCapabilities"]
            /\ capRequests' = [capRequests EXCEPT ![c] = @ + 1]
            /\ UNCHANGED result
    /\ UNCHANGED <<now, accessToken, tokenExpiry, tokenResponse, tokRequests>>
    /\ UNCHANGED nonTokenVars

\* CapabilitiesReply emptying the cache when the request is rejected.
CapabilitiesReplyClearsCache(c, ok) ==
    /\ pc[c] = "awaitCapabilities"
    /\ IF ok
       THEN /\ pc' = [pc EXCEPT ![c] = "awaitToken"]
            /\ tokRequests' = [tokRequests EXCEPT ![c] = @ + 1]
            /\ UNCHANGED <<accessToken, tokenExpiry>>
       ELSE /\ pc' = [pc EXCEPT ![c] = "thrown"]
            /\ accessToken' = Null
            /\ tokenExpiry' = NullExpiry
            /\ UNCHANGED tokRequests
    /\ UNCHANGED <<now, result, tokenResponse, capRequests>>
    /\ UNCHANGED nonTokenVars

\* lines 22-34 and 43-50: the capabilities request settles; on success the
\* identity request is issued, on failure the catch block throws.
CapabilitiesReply(c, ok) ==
    /\ pc[c] = "awaitCapabilities"
    /\ IF ok
       THEN /\ pc' = [pc EXCEPT ![c] = "awaitToken"]
            /\ tokRequests' = [tokRequests EXCEPT ![c] = @ + 1]
       ELSE /\ pc' = [pc EXCEPT ![c] = "thrown"]
            /\ UNCHANGED tokRequests
    /\ UNCHANGED <<now, accessToken, tokenExpiry, result, tokenResponse,
                   capRequests>>
    /\ UNCHANGED nonTokenVars

\* TokenReply that writes the expiry only into an empty cache.
TokenReplyKeepsExpiry(c, r) ==
    /\ pc[c] = "awaitToken"
    /\ tokenResponse' = [tokenResponse EXCEPT ![c] = r]
    /\ IF AxiosResolves(r) /\ ~ReadThrows(r)
       THEN /\ accessToken' = TokenPrefix \o TemplateString(r.access_token)
            /\ tokenExpiry' = IF tokenExpiry = NullExpiry THEN now + TokenTTL
                              ELSE tokenExpiry
            /\ pc' = [pc EXCEPT ![c] = "returnedFresh"]
            /\ result' = [result EXCEPT ![c] = accessToken']
       ELSE /\ pc' = [pc EXCEPT ![c] = "thrown"]
            /\ UNCHANGED <<accessToken, tokenExpiry, result>>
    /\ UNCHANGED <<now, capRequests, tokRequests>>
    /\ UNCHANGED nonTokenVars

\* TokenReply with one internal retry of a rejected identity request.
TokenReplyWithRetry(c, r) ==
    /\ pc[c] = "awaitToken"
    /\ tokenResponse' = [tokenResponse EXCEPT ![c] = r]
    /\ IF AxiosResolves(r) /\ ~ReadThrows(r)
       THEN /\ accessToken' = TokenPrefix \o TemplateString(r.access_token)
            /\ tokenExpiry' = now + TokenTTL
            /\ pc' = [pc EXCEPT ![c] = "returnedFresh"]
            /\ result' = [result EXCEPT ![c] = accessToken']
            /\ UNCHANGED tokRequests
       ELSE /\ IF tokRequests[c] < 2
               THEN /\ tokRequests' = [tokRequests EXCEPT ![c] = @ + 1]
                    /\ UNCHANGED pc
               ELSE /\ pc' = [pc EXCEPT ![c] = "thrown"]
                    /\ UNCHANGED tokRequests
            /\ UNCHANGED <<accessToken, tokenExpiry, result>>
    /\ UNCHANGED <<now, capRequests>>
    /\ UNCHANGED nonTokenVars

\* lines 26-50: the identity request settles; the token is stored and
\* returned, or the catch block throws.
TokenReply(c, r) ==
    /\ pc[c] = "awaitToken"
    /\ tokenResponse' = [tokenResponse EXCEPT ![c] = r]
    /\ IF AxiosResolves(r) /\ ~ReadThrows(r)
       THEN /\ accessToken' = TokenPrefix \o TemplateString(r.access_token)
            /\ tokenExpiry' = now + TokenTTL
            /\ pc' = [pc EXCEPT ![c] = "returnedFresh"]
            /\ result' = [result EXCEPT ![c] = accessToken']
       ELSE /\ pc' = [pc EXCEPT ![c] = "thrown"]
            /\ UNCHANGED <<accessToken, tokenExpiry, result>>
    /\ UNCHANGED <<now, capRequests, tokRequests>>
    /\ UNCHANGED nonTokenVars

\* The caller's request is over; the caller may serve another one.
Finish(c) ==
    /\ pc[c] \in {"returnedCached", "returnedFresh", "thrown"}
    /\ pc' = [pc EXCEPT ![c] = "idle"]
    /\ result' = [result EXCEPT ![c] = Null]
    /\ tokenResponse' = [tokenResponse EXCEPT ![c] = NoReply]
    /\ capRequests' = [capRequests EXCEPT ![c] = 0]
    /\ tokRequests' = [tokRequests EXCEPT ![c] = 0]
    /\ UNCHANGED <<now, accessToken, tokenExpiry>>
    /\ UNCHANGED nonTokenVars

Next ==
    \/ Tick
    \/ \E c \in Callers : GetAccessToken(c)
    \/ \E c \in Callers : \E ok \in BOOLEAN : CapabilitiesReply(c, ok)
    \/ \E c \in Callers : \E r \in IdentityReplies : TokenReply(c, r)
    \/ \E c \in Callers : Finish(c)

Spec == Init /\ [][Next]_vars

(***************************************************************************)
(* resolveDemCollectionId on its own: one call per behaviour, for every     *)
(* product and every answer of the catalog endpoint.                        *)
(***************************************************************************)
InitResolver ==
    /\ TokenIdle
    /\ GraphIdle
    /\ StorageIdle
    /\ BboxIdle
    /\ TransformIdle
    /\ RequestIdle
    /\ SanitizeIdle
    /\ product \in Products
    /\ catalogReply = NoCatalogReply
    /\ resolverPc = "idle"
    /\ resolved = NotResolved

\* lines 199-204: the call issues GET /collections and suspends.
ResolveDemCollectionId ==
    /\ resolverPc = "idle"
    /\ resolverPc' = "awaitCatalog"
    /\ UNCHANGED <<product, catalogReply, resolved>>
    /\ UNCHANGED nonResolverVars

\* lines 205-298: the request settles and the call returns.
CatalogReply(reply) ==
    /\ resolverPc = "awaitCatalog"
    /\ catalogReply' = reply
    /\ resolved' = ResolveOutcome(product, reply)
    /\ resolverPc' = "done"
    /\ UNCHANGED product
    /\ UNCHANGED nonResolverVars

NextResolver ==
    \/ ResolveDemCollectionId
    \/ \E reply \in CatalogReplies : CatalogReply(reply)

SpecResolver == InitResolver /\ [][NextResolver]_vars

(***************************************************************************)
(* The bounding boxes of one POST /dem/clip request: the body is validated, *)
(* then getDEMCutout and saveDemFile compute their boxes from it.           *)
(***************************************************************************)
InitBbox ==
    /\ TokenIdle
    /\ GraphIdle
    /\ StorageIdle
    /\ ResolverIdle
    /\ TransformIdle
    /\ RequestIdle
    /\ SanitizeIdle
    /\ body \in Bodies
    /\ validation = "pending"
    /\ bbox = NoBox
    /\ storageBbox = NoBox

\* demRoutes.js lines 122-132: 400 on a schema error, next() otherwise.
validateDemRequest ==
    /\ validation = "pending"
    /\ validation' = IF coordinatesSchema(body) THEN "accepted" ELSE "rejected"
    /\ UNCHANGED <<body, bbox, storageBbox>>
    /\ UNCHANGED nonBboxVars

\* openeoService.js line 321
GetDEMCutoutBbox ==
    /\ validation = "accepted"
    /\ bbox = NoBox
    /\ bbox' = bboxFromPolygon(body.coordinates)
    /\ UNCHANGED <<body, validation, storageBbox>>
    /\ UNCHANGED nonBboxVars

\* demRoutes.js line 144, fileStorageService.js lines 28 and 75
SaveDemFileBbox ==
    /\ validation = "accepted"
    /\ bbox # NoBox
    /\ storageBbox = NoBox
    /\ storageBbox' = getBboxFromCoordinates(body.coordinates)
    /\ UNCHANGED <<body, validation, bbox>>
    /\ UNCHANGED nonBboxVars

NextBbox ==
    \/ validateDemRequest
    \/ GetDEMCutoutBbox
    \/ SaveDemFileBbox

SpecBbox == InitBbox /\ [][NextBbox]_vars

(***************************************************************************)
(* The JSON branch of POST /dem/clip from the parsed payload on: one        *)
(* request per behaviour, for every payload.                                *)
(***************************************************************************)
InitTransform ==
    /\ TokenIdle
    /\ GraphIdle
    /\ StorageIdle
    /\ ResolverIdle
    /\ BboxIdle
    /\ RequestIdle
    /\ SanitizeIdle
    /\ IsTransformInput(demData)
    /\ transformed = NotTransformed
    /\ response = NoResponse
    /\ transformPc = "parsed"

\* demRoutes.js line 220; an exception leaves through the catch block of
\* lines 242-247.
TransformDemData ==
    /\ transformPc = "parsed"
    /\ transformed' = transformDemData(demData)
    /\ IF transformed'.kind = "thrown"
       THEN /\ response' = InternalServerError
            /\ transformPc' = "sent"
       ELSE /\ response' = response
            /\ transformPc' = "transformed"
    /\ UNCHANGED demData
    /\ UNCHANGED nonTransformVars

\* demRoutes.js lines 222-241; savedFileSuccess is how saveDemFile ended.
SendJson(savedFileSuccess) ==
    /\ transformPc = "transformed"
    /\ response' = JsonResponse(transformed, savedFileSuccess)
    /\ transformPc' = "sent"
    /\ UNCHANGED <<demData, transformed>>
    /\ UNCHANGED nonTransformVars

NextTransform ==
    \/ TransformDemData
    \/ \E savedFileSuccess \in BOOLEAN : SendJson(savedFileSuccess)

SpecTransform == InitTransform /\ [][NextTransform]_vars

(***************************************************************************)
(* One inbound request per behaviour, served over a token cache that is     *)
(* empty or holds a token.  The statements that follow an await are a step  *)
(* of their own, taken once the awaited call has settled.                   *)
(***************************************************************************)
InitRequests ==
    /\ BboxIdle
    /\ GraphIdle
    /\ StorageIdle
    /\ TransformIdle
    /\ SanitizeIdle
    /\ now = 1
    /\ \/ accessToken = Null /\ tokenExpiry = NullExpiry
       \/ accessToken = TokenPrefix \o "A" /\ tokenExpiry = 1 + TokenTTL
    /\ pc = [c \in Callers |-> "idle"]
    /\ result = [c \in Callers |-> Null]
    /\ tokenResponse = [c \in Callers |-> NoReply]
    /\ capRequests = [c \in Callers |-> 0]
    /\ tokRequests = [c \in Callers |-> 0]
    /\ request \in NdviBodies \cup DemBodies
           \cup {[NoRequest EXCEPT !.kind = "unparsable"]}
    /\ product = IF request.product \in Products THEN request.product ELSE "GLO-30"
    /\ catalogReply = NoCatalogReply
    /\ resolverPc = "idle"
    /\ resolved = NotResolved
    /\ nodeEnv \in {Absent, "development", "production"}
    /\ reqPc = "received"
    /\ answer = NoAnswer
    /\ resultCalls = 0
    /\ resultReply = "none"

\* app.js lines 22 and 64-73: express.json() fails on a body that is not
\* JSON and the error reaches the global error handler.
ExpressJsonError ==
    /\ reqPc = "received"
    /\ request.kind = "unparsable"
    /\ answer' = GlobalErrorHandler("Unexpected token in JSON", ConfigNodeEnv(nodeEnv))
    /\ reqPc' = "responded"
    /\ UNCHANGED <<request, nodeEnv, resultCalls, resultReply>>
    /\ UNCHANGED nonRequestVars

\* validateRequest calling next() whatever the verdict.
validateRequestAlwaysNext ==
    /\ reqPc = "received"
    /\ request.kind = "ndvi"
    /\ reqPc' = "awaitToken"
    /\ UNCHANGED <<request, nodeEnv, answer, resultCalls, resultReply>>
    /\ UNCHANGED nonRequestVars

\* ndviRoutes.js lines 8-20: 400 on a schema error, next() otherwise.
validateRequest ==
    /\ reqPc = "received"
    /\ request.kind = "ndvi"
    /\ IF ndviRequestSchema(request)
       THEN /\ reqPc' = "awaitToken"
            /\ UNCHANGED answer
       ELSE /\ answer' = ValidationError
            /\ reqPc' = "responded"
    /\ UNCHANGED <<request, nodeEnv, resultCalls, resultReply>>
    /\ UNCHANGED nonRequestVars

\* demRoutes.js lines 122-132 on the whole body: 400 on a schema error;
\* otherwise req.body becomes the value of the schema and next() is called.
validateDemBody ==
    /\ reqPc = "received"
    /\ request.kind = "dem"
    /\ IF demRequestSchema(request)
       THEN /\ request' = demValue(request)
            /\ reqPc' = "awaitToken"
            /\ UNCHANGED answer
       ELSE /\ answer' = ValidationError
            /\ reqPc' = "responded"
            /\ UNCHANGED request
    /\ UNCHANGED <<nodeEnv, resultCalls, resultReply>>
    /\ UNCHANGED nonRequestVars

\* openeoService.js lines 71 and 319: await this.getAccessToken(), run by
\* the steps of getAccessToken for the caller of the request.
AwaitAccessToken ==
    /\ reqPc = "awaitToken"
    /\ \/ GetAccessToken(RequestCaller)
       \/ \E ok \in BOOLEAN : CapabilitiesReply(RequestCaller, ok)
       \/ \E r \in IdentityReplies : TokenReply(RequestCaller, r)

\* openeoService.js lines 71-172 and 319-320: the token call has settled.
\* With a token, getNDVITimeseries posts the graph and getDEMCutout goes on
\* to resolveDemCollectionId; a rejection reaches the catch blocks of the
\* service (lines 175-186, 416-423) and of the route.
TokenSettled ==
    /\ reqPc = "awaitToken"
    /\ pc[RequestCaller] \in {"returnedCached", "returnedFresh", "thrown"}
    /\ IF pc[RequestCaller] = "thrown"
       THEN /\ answer' = RouteCatch(ServiceError(request.kind), ConfigNodeEnv(nodeEnv))
            /\ reqPc' = "responded"
            /\ UNCHANGED resultCalls
       ELSE IF request.kind = "ndvi"
       THEN /\ resultCalls' = resultCalls + 1
            /\ reqPc' = "awaitResult"
            /\ UNCHANGED answer
       ELSE /\ reqPc' = "awaitCollection"
            /\ UNCHANGED <<answer, resultCalls>>
    /\ UNCHANGED <<request, nodeEnv, resultReply>>
    /\ UNCHANGED nonRequestVars

\* openeoService.js line 320: await this.resolveDemCollectionId(product,
\* token), run by the steps of the resolver.
AwaitCollectionId ==
    /\ reqPc = "awaitCollection"
    /\ \/ ResolveDemCollectionId
       \/ \E reply \in FlowCatalogReplies : CatalogReply(reply)

\* CollectionSettled not waiting for the answer to GET /collections.
CollectionSettledEarly ==
    /\ reqPc = "awaitCollection"
    /\ resolverPc \in {"awaitCatalog", "done"}
    /\ resultCalls' = resultCalls + 1
    /\ reqPc' = "awaitResult"
    /\ UNCHANGED <<request, nodeEnv, answer, resultReply>>
    /\ UNCHANGED nonRequestVars

\* openeoService.js lines 320-408: the resolver has returned (it never
\* throws); the bbox and the graph are built and the graph is posted.
CollectionSettled ==
    /\ reqPc = "awaitCollection"
    /\ resolverPc = "done"
    /\ resultCalls' = resultCalls + 1
    /\ reqPc' = "awaitResult"
    /\ UNCHANGED <<request, nodeEnv, answer, resultReply>>
    /\ UNCHANGED nonRequestVars

\* ResultSettled with a rejection that no catch block answers.
ResultSettledDropsRejection(ok, payload, savedFileSuccess) ==
    /\ reqPc = "awaitResult"
    /\ IF ~ok
       THEN /\ reqPc' = "dropped"
            /\ UNCHANGED answer
       ELSE /\ answer' = IF request.kind = "ndvi"
                         THEN NdviAnswer
                         ELSE DemAnswer(request.format,
                                        ResponseData(request.format, payload),
                                        savedFileSuccess)
            /\ reqPc' = "responded"
    /\ resultReply' = IF ok THEN "resolved" ELSE "rejected"
    /\ UNCHANGED <<request, nodeEnv, resultCalls>>
    /\ UNCHANGED nonRequestVars

\* POST /result has settled.  A rejection reaches the catch blocks of the
\* service and of the route (500).  Otherwise ndviRoutes.js line 33 sends
\* the data, and demRoutes.js lines 141-241 save the file (saveDemFile
\* reports a failure, it does not throw) and answer by format.
ResultSettled(ok, payload, savedFileSuccess) ==
    /\ reqPc = "awaitResult"
    /\ IF ~ok
       THEN answer' = RouteCatch(ServiceError(request.kind), ConfigNodeEnv(nodeEnv))
       ELSE answer' = IF request.kind = "ndvi"
                      THEN NdviAnswer
                      ELSE DemAnswer(request.format,
                                     ResponseData(request.format, payload),
                                     savedFileSuccess)
    /\ resultReply' = IF ok THEN "resolved" ELSE "rejected"
    /\ reqPc' = "responded"
    /\ UNCHANGED <<request, nodeEnv, resultCalls>>
    /\ UNCHANGED nonRequestVars

NextRequests ==
    \/ Tick
    \/ ExpressJsonError
    \/ validateRequest
    \/ validateDemBody
    \/ AwaitAccessToken
    \/ TokenSettled
    \/ AwaitCollectionId
    \/ CollectionSettled
    \/ \E ok \in BOOLEAN : \E payload \in ResultPayloads :
          \E savedFileSuccess \in BOOLEAN : ResultSettled(ok, payload, savedFileSuccess)

SpecRequests == InitRequests /\ [][NextRequests]_vars

\* The steps of a request other than the passing of time.
RequestProgress ==
    \/ ExpressJsonError
    \/ validateRequest
    \/ validateDemBody
    \/ AwaitAccessToken
    \/ TokenSettled
    \/ AwaitCollectionId
    \/ CollectionSettled
    \/ \E ok \in BOOLEAN : \E payload \in ResultPayloads :
          \E savedFileSuccess \in BOOLEAN : ResultSettled(ok, payload, savedFileSuccess)

\* The requests under fair scheduling: the event loop runs a handler that can
\* run, and every outstanding remote call settles, resolved or rejected.
SpecRequestsFair == InitRequests /\ [][NextRequests]_vars /\ WF_vars(RequestProgress)

(***************************************************************************)
(* The parsing of one textual payload per behaviour.                        *)
(***************************************************************************)
InitSanitize ==
    /\ TokenIdle
    /\ GraphIdle
    /\ StorageIdle
    /\ ResolverIdle
    /\ BboxIdle
    /\ TransformIdle
    /\ RequestIdle
    /\ IsPayload(data)
    /\ parsedData = NotParsed

\* demRoutes.js lines 186-217
ParseData ==
    /\ parsedData = NotParsed
    /\ parsedData' = ParsedData(data)
    /\ UNCHANGED data
    /\ UNCHANGED nonSanitizeVars

NextSanitize == ParseData

SpecSanitize == InitSanitize /\ [][NextSanitize]_vars

(***************************************************************************)
(* The specification of the process graphs: one call of getNDVITimeseries   *)
(* or getDEMCutout, up to the graph it posts.                               *)
(***************************************************************************)
\* The formats a caller of getDEMCutout passes.
GraphFormats == {Absent, "JSON", "GTiff", "PNG", "json", "NetCDF"}

\* The collection ids resolveDemCollectionId returns.
GraphCollectionIds == {FallbackId, knownDemIds[6], "COPERNICUS_30"}

InitGraph ==
    /\ TokenIdle
    /\ StorageIdle
    /\ ResolverIdle
    /\ BboxIdle
    /\ TransformIdle
    /\ RequestIdle
    /\ SanitizeIdle
    /\ \E r \in Rings :
          /\ linearRingSchema(r)
          /\ \/ \E f \in GraphFormats, id \in GraphCollectionIds :
                  graphArgs = [call |-> "dem", format |-> f, collectionId |-> id,
                               box |-> NoBox, coordinates |-> <<r>>,
                               startDate |-> ToDate(NoDate),
                               endDate |-> ToDate(NoDate)]
             \/ \E s \in DateTexts, e \in DateTexts :
                  /\ dateSchema(s) /\ dateSchema(e)
                  /\ graphArgs = [call |-> "ndvi", format |-> Absent,
                                  collectionId |-> "", box |-> NoBox,
                                  coordinates |-> <<r>>,
                                  startDate |-> ToDate(s), endDate |-> ToDate(e)]
    /\ processGraph = NoGraph

\* openeoService.js lines 74-156
GetNDVITimeseriesGraph ==
    /\ graphArgs.call = "ndvi"
    /\ processGraph = NoGraph
    /\ processGraph' = ndviProcessGraph(graphArgs.coordinates,
                                        graphArgs.startDate, graphArgs.endDate)
    /\ UNCHANGED graphArgs
    /\ UNCHANGED nonGraphVars

\* openeoService.js lines 317-394: the default of format, the bbox of line
\* 321 and the graph
GetDEMCutoutGraph ==
    /\ graphArgs.call = "dem"
    /\ processGraph = NoGraph
    /\ LET box == bboxFromPolygon(graphArgs.coordinates)
       IN  /\ graphArgs' = [graphArgs EXCEPT !.box = box]
           /\ processGraph' = demProcessGraph(ServiceFormat(graphArgs.format),
                                              graphArgs.collectionId, box)
    /\ UNCHANGED nonGraphVars

NextGraph ==
    \/ GetNDVITimeseriesGraph
    \/ GetDEMCutoutGraph

SpecGraph == InitGraph /\ [][NextGraph]_vars

(***************************************************************************)
(* The specification of the file endpoints: requests for saved files, one   *)
(* after the other, against the disk.                                       *)
(***************************************************************************)
\* The :filename parameters of the requests, as the URL carries them.
Filenames == SeqsUpTo(NamePieces, MaxName) \ {<<>>}

InitStorage ==
    /\ TokenIdle
    /\ GraphIdle
    /\ ResolverIdle
    /\ BboxIdle
    /\ TransformIdle
    /\ RequestIdle
    /\ SanitizeIdle
    /\ StorageIdle

\* demRoutes.js lines 265-301: GET /dem/files/:filename; res.sendFile reads
\* the file, and fails on a directory
GetFile(raw) ==
    LET filename == DecodeParam(raw)
        fileInfo == getDemFile(storedFiles, filename)
    IN  /\ fileRequest' = [method |-> "GET", filename |-> raw]
        /\ IF ~fileInfo.found
           THEN /\ fileAnswer' = 404
                /\ touched' = fileInfo.reads
           ELSE IF fileInfo.filePath \in storedFiles
           THEN /\ fileAnswer' = 200
                /\ touched' = fileInfo.reads \cup {Read(fileInfo.filePath)}
           ELSE /\ fileAnswer' = 500
                /\ touched' = fileInfo.reads
        /\ UNCHANGED storedFiles
        /\ UNCHANGED nonStorageVars

\* demRoutes.js lines 304-320: DELETE /dem/files/:filename
DeleteFile(raw) ==
    LET filename == DecodeParam(raw)
        deletion == deleteDemFile(storedFiles, filename)
    IN  /\ fileRequest' = [method |-> "DELETE", filename |-> raw]
        /\ fileAnswer' = IF deletion.success THEN 200 ELSE 404
        /\ storedFiles' = storedFiles \ deletion.unlinked
        /\ touched' = {Unlink(p) : p \in deletion.unlinked}
        /\ UNCHANGED nonStorageVars

NextStorage ==
    \/ \E raw \in Filenames : GetFile(raw)
    \/ \E raw \in Filenames : DeleteFile(raw)

SpecStorage == InitStorage /\ [][NextStorage]_vars

(***************************************************************************)
(* Claims about the token cache, checked under Spec.                        *)
(***************************************************************************)

\* The identity endpoint answered with a success status and a body that
\* carries an access token.
WellFormedReply(r) == r.status \in 200..299 /\ r.body # Null /\ r.access_token # Undefined

\* C1: a getAccessToken call made while a token is cached and the clock is
\* strictly before its expiry returns the cached token, issues no network
\* request and leaves token and expiry unchanged; the expiry a refresh stores
\* is 55 minutes after that refresh.
C1_CachedCallReturnsCachedToken ==
    [][/\ \A c \in Callers :
            (pc[c] = "idle" /\ pc'[c] # "idle" /\ accessToken # Null /\ now < tokenExpiry)
                => /\ pc'[c] = "returnedCached"
                   /\ result'[c] = accessToken
                   /\ accessToken' = accessToken
                   /\ tokenExpiry' = tokenExpiry
                   /\ capRequests'[c] = 0
                   /\ tokRequests'[c] = 0
       /\ (tokenExpiry' # tokenExpiry) => (tokenExpiry' = now + 55 * 60 * 1000)
      ]_vars

\* C1 witness: a call answered from the cache at the last instant before expiry.
C1_Witness ==
    \E c \in Callers :
        /\ pc[c] = "returnedCached"
        /\ result[c] = accessToken
        /\ result[c] = "oidc/CDSE/A"
        /\ capRequests[c] = 0 /\ tokRequests[c] = 0
        /\ now = tokenExpiry - 1

\* C2 as stated: a lone call on an empty or expired cache issues exactly one
\* network request before it returns the new token.
C2_ExactlyOneNetworkRequest ==
    \A c \in Callers :
        (pc[c] = "returnedFresh" /\ \A d \in Callers \ {c} : pc[d] = "idle")
            => capRequests[c] + tokRequests[c] = 1

\* C2 amended: a call on an empty or expired cache issues exactly one
\* capabilities request and then exactly one identity-endpoint request, two
\* network requests in all, before it returns the new token.
C2_OneCapabilitiesThenOneIdentityRequest ==
    [][\A c \in Callers :
          /\ (pc[c] = "idle" /\ pc'[c] # "idle" /\ ~(accessToken # Null /\ now < tokenExpiry))
                => (pc'[c] = "awaitCapabilities" /\ capRequests'[c] = 1 /\ tokRequests'[c] = 0)
          /\ (pc'[c] = "awaitToken") => (capRequests'[c] = 1 /\ tokRequests'[c] = 1)
          /\ (pc'[c] = "returnedFresh") => (capRequests'[c] = 1 /\ tokRequests'[c] = 1)
          /\ (pc[c] # "returnedFresh" /\ pc'[c] = "returnedFresh")
                => (pc[c] = "awaitToken" /\ result'[c] = accessToken' /\ result'[c] # Null)
      ]_vars

\* C2 witness: a lone caller refreshed an expired token with two requests.
C2_Witness ==
    \E c \in Callers :
        /\ pc[c] = "returnedFresh"
        /\ result[c] = "oidc/CDSE/B"
        /\ capRequests[c] = 1 /\ tokRequests[c] = 1
        /\ tokenExpiry > 2 * TokenTTL
        /\ \A d \in Callers \ {c} : pc[d] = "idle"

\* C3 as stated (single-flight): callers that overlap one refresh cause one
\* identity-endpoint request, so no two callers ever have an identity request
\* outstanding at once, and callers that refreshed together hold one token.
C3_SingleFlight ==
    \A c, d \in Callers :
        c # d =>
            /\ ~(pc[c] = "awaitToken" /\ pc[d] = "awaitToken")
            /\ (pc[c] = "returnedFresh" /\ pc[d] = "returnedFresh") => result[c] = result[d]

\* C4 as stated: a non-success status or a body without an access token makes
\* the call fail, and no token is handed out.
C4_BadReplyFails ==
    \A c \in Callers :
        (tokenResponse[c] # NoReply /\ ~WellFormedReply(tokenResponse[c]))
            => (pc[c] = "thrown" /\ result[c] = Null)

\* C5 as stated: token and expiry change only in the step in which a refresh
\* succeeds, i.e. the identity endpoint answered with a success status and a
\* body that carries an access token.
C5_OnlySuccessfulRefreshWrites ==
    [][(accessToken' # accessToken \/ tokenExpiry' # tokenExpiry)
          => \E c \in Callers :
                /\ pc[c] = "awaitToken" /\ pc'[c] = "returnedFresh"
                /\ WellFormedReply(tokenResponse'[c])
      ]_vars

(***************************************************************************)
(* Claims about the collection resolver, checked under SpecResolver.        *)
(***************************************************************************)

\* The call is over and the catalog request had resolved with this list.
ResolvedFrom(list) ==
    /\ resolverPc = "done"
    /\ AxiosResolves(catalogReply)
    /\ list = CollectionList(catalogReply)

\* The known ids that precede "COPERNICUS/DEM/GLO-30" in the fixed list.
C6_EarlierKnownIds ==
    {"USGS/SRTMGL1_003", "CGIAR/SRTM90_V4", "NASA/NASADEM_HGT/001",
     "USGS/GMTED2010", "NOAA/NGDC/ETOPO1"}

\* C6 as stated: every fetched catalog that contains "COPERNICUS/DEM/GLO-30"
\* resolves product GLO-30 to that id, without the keyword search.
C6_Glo30AlwaysResolvesToItself ==
    LET list == CollectionList(catalogReply) IN
        (ResolvedFrom(list) /\ product = "GLO-30" /\ Exists(list, "COPERNICUS/DEM/GLO-30"))
            => (resolved.id = "COPERNICUS/DEM/GLO-30" /\ resolved.line = 239)

\* C6 amended: a fetched catalog that contains "COPERNICUS/DEM/GLO-30" and
\* none of the five known ids that precede it in the fixed list resolves
\* product GLO-30 to "COPERNICUS/DEM/GLO-30", returning from the known-id loop
\* (line 239) before the keyword filter is reached.
C6_Glo30ResolvesWhenNoEarlierKnownId ==
    LET list == CollectionList(catalogReply) IN
        (/\ ResolvedFrom(list)
         /\ product = "GLO-30"
         /\ Exists(list, "COPERNICUS/DEM/GLO-30")
         /\ \A e \in C6_EarlierKnownIds : ~Exists(list, e))
            => (/\ resolved.outcome = "returned"
                /\ resolved.id = "COPERNICUS/DEM/GLO-30"
                /\ resolved.line = 239)

\* C6 witness: GLO-30 resolved from a catalog that lists it after an entry the
\* keyword filter would have chosen and next to a later known id.
C6_Witness ==
    /\ ResolvedFrom(CollectionList(catalogReply))
    /\ product = "GLO-30"
    /\ Len(catalogReply.collections) = 3
    /\ catalogReply.collections[1].id = "TERRAIN_30"
    /\ catalogReply.collections[2].id = "JAXA/ALOS/AW3D30/V3_2"
    /\ catalogReply.collections[3].id = "COPERNICUS/DEM/GLO-30"
    /\ resolved.id = "COPERNICUS/DEM/GLO-30"

\* C7: when the catalog fetch fails, or the fetched catalog is empty, the call
\* returns "USGS/SRTMGL1_003" for every product and raises nothing.
C7_FallbackOnFailedOrEmptyCatalog ==
    (/\ resolverPc = "done"
     /\ \/ ~(catalogReply.status \in 200..299)
        \/ Len(CollectionList(catalogReply)) = 0)
        => (resolved.outcome = "returned" /\ resolved.id = "USGS/SRTMGL1_003")

\* C7 witness: a rejected catalog request for product EEA-10 ended in the
\* fallback id.
C7_Witness ==
    /\ resolverPc = "done"
    /\ catalogReply.status = 503
    /\ product = "EEA-10"
    /\ resolved.outcome = "returned"
    /\ resolved.id = "USGS/SRTMGL1_003"

\* An entry the keyword heuristics accept.
C8_Qualifies(c) == hasDemKeywords(c) /\ notVegetation(c)

\* C8: for every fetched catalog the result is the first id of the known-DEM
\* list that appears in the catalog; if none appears, the id of the first
\* catalog entry, in catalog order, with an elevation term and no vegetation
\* term; if there is none, the fallback id.
C8_PriorityOrder ==
    LET list == CollectionList(catalogReply) IN
        ResolvedFrom(list) =>
            /\ resolved.outcome = "returned"
            /\ IF \E k \in 1..Len(knownDemIds) : Exists(list, knownDemIds[k])
               THEN \E k \in 1..Len(knownDemIds) :
                        /\ Exists(list, knownDemIds[k])
                        /\ \A j \in 1..(k - 1) : ~Exists(list, knownDemIds[j])
                        /\ resolved.id = knownDemIds[k]
               ELSE IF \E i \in 1..Len(list) : C8_Qualifies(list[i])
                    THEN \E i \in 1..Len(list) :
                            /\ C8_Qualifies(list[i])
                            /\ \A j \in 1..(i - 1) : ~C8_Qualifies(list[j])
                            /\ resolved.id = list[i].id
                    ELSE resolved.id = "USGS/SRTMGL1_003"

\* C8 witness: no known id is listed, the first two entries are rejected (one
\* for a vegetation term, one for lacking an elevation term) and the third is
\* chosen by the keyword filter.
C8_Witness ==
    /\ ResolvedFrom(CollectionList(catalogReply))
    /\ Len(catalogReply.collections) = 3
    /\ catalogReply.collections[1].id = "CANOPY"
    /\ catalogReply.collections[2].id = "SENTINEL2_L2A"
    /\ catalogReply.collections[3].id = "COPERNICUS/DEM/GLO-90"
    /\ resolved.id = "COPERNICUS/DEM/GLO-90"
    /\ resolved.line = 285

(***************************************************************************)
(* Claims about the bounding box, checked under SpecBbox.                   *)
(***************************************************************************)

\* The point lies inside the box.
C9_Inside(p, box) ==
    /\ Le(box.west, Num(p[1])) /\ Le(Num(p[1]), box.east)
    /\ Le(box.south, Num(p[2])) /\ Le(Num(p[2]), box.north)

\* The box is ordered and holds every point of the ring.
C9_Encloses(box, ring) ==
    /\ box.kind = "box"
    /\ Le(box.west, box.east)
    /\ Le(box.south, box.north)
    /\ \A i \in 1..Len(ring) : C9_Inside(ring[i], box)

\* C9: for every ring with at least 3 points the returned box has
\* west <= east and south <= north, and every point of the ring lies in it;
\* this holds of bboxFromPolygon and of getBboxFromCoordinates.
C9_BoxOrderedAndEnclosing ==
    LET ring == FirstRing(body.coordinates) IN
        Len(ring) >= 3 =>
            /\ (bbox # NoBox) => C9_Encloses(bbox, ring)
            /\ (storageBbox # NoBox) => C9_Encloses(storageBbox, ring)

\* C9 witness: both boxes computed for a triangle with distinct corners.
C9_Witness ==
    /\ body.coordinates = <<<<<<-2, 3>>, <<1, -1>>, <<0, 3>>>>>>
    /\ bbox = [kind |-> "box", west |-> Num(-2), south |-> Num(-1),
               east |-> Num(1), north |-> Num(3)]
    /\ storageBbox = bbox

\* C10 as stated: for a ring with fewer than 3 points, an empty ring and a
\* missing first ring included, no box is ever returned.
C10_ShortRingYieldsNoBox ==
    Len(FirstRing(body.coordinates)) < 3 => (bbox.kind # "box" /\ storageBbox.kind # "box")

(***************************************************************************)
(* Claims about transformDemData and the JSON answer, checked under         *)
(* SpecTransform.                                                           *)
(***************************************************************************)
\* The cells of the payload's grid, as zero-based <<yIdx, xIdx>>.
GridCells ==
    UNION {{<<yIdx, xIdx>> : xIdx \in 0..(Len(demData.band[yIdx + 1].cells) - 1)} :
              yIdx \in 0..(Len(demData.band) - 1)}

CellAt(c) == demData.band[c[1] + 1].cells[c[2] + 1]

\* The cell has a coordinate on both axes.
InAxes(c) == c[2] < Len(demData.x.data) /\ c[1] < Len(demData.y.data)

\* Validity as the specification words it.
SpecValid(e) ==
    /\ e.kind = "num"
    /\ e.val \notin {19500, -9999000, -32768000}
    /\ e.val > -1000000
    /\ e.val < 10000000

\* The point a cell inside the axes would contribute.
PointOf(c) ==
    [x |-> RoundTen(demData.x.data[c[2] + 1]),
     y |-> RoundTen(demData.y.data[c[1] + 1]),
     elevation |-> RoundTen(CellAt(c).val)]

HasPoint(c) ==
    /\ InAxes(c)
    /\ \E i \in 1..Len(transformed.points) : transformed.points[i] = PointOf(c)

\* C11 as stated: a cell contributes an ElevationPoint and a statistics
\* sample if and only if its value is valid (not null/NaN, no sentinel,
\* strictly between -1000 and 10000); nothing else includes or excludes it.
C11_ValidCellsAreTheSamples ==
    (transformPc # "parsed" /\ demData.shape = "grid") =>
        /\ transformed.statistics.count =
               Cardinality({c \in GridCells : SpecValid(CellAt(c))})
        /\ Len(transformed.points) = transformed.statistics.count

\* C11, amended: in every result of transform, a cell contributes an
\* ElevationPoint and a statistics sample if and only if its value is valid
\* and its row and column indices lie within the y and x coordinate axes;
\* transform returns null over iterable axes only when no such cell exists.
C11_ValidCellsWithinAxesAreTheSamples ==
    /\ (transformPc # "parsed" /\ transformed.kind = "result") =>
           /\ \A c \in GridCells :
                  HasPoint(c) <=> (SpecValid(CellAt(c)) /\ InAxes(c))
           /\ transformed.statistics.count =
                  Cardinality({c \in GridCells : SpecValid(CellAt(c)) /\ InAxes(c)})
           /\ Len(transformed.points) = transformed.statistics.count
    /\ (/\ transformPc # "parsed"
        /\ transformed.kind = "null"
        /\ demData.shape = "grid"
        /\ ~SpreadThrows(OrEmptyArray(demData.x))
        /\ ~SpreadThrows(OrEmptyArray(demData.y))) =>
           \A c \in GridCells : ~(SpecValid(CellAt(c)) /\ InAxes(c))

\* A result over a grid holding a contributing cell, a nodata cell inside
\* the axes and a valid cell outside them.
C11_Witness ==
    /\ transformPc = "transformed"
    /\ transformed.kind = "result"
    /\ \E c \in GridCells : SpecValid(CellAt(c)) /\ InAxes(c)
    /\ \E c \in GridCells : ~SpecValid(CellAt(c)) /\ InAxes(c)
    /\ \E c \in GridCells : SpecValid(CellAt(c)) /\ ~InAxes(c)

\* C12: when no cell of the grid is valid, transform returns null and the
\* endpoint answers 200 with success and rawData, without elevationPoints
\* or statistics.
C12_NoValidCellIsAPlainSuccess ==
    (demData.shape = "grid" /\ \A c \in GridCells : ~SpecValid(CellAt(c))) =>
        /\ transformPc # "parsed" => transformed.kind = "null"
        /\ transformPc = "sent" =>
               /\ response.status = 200
               /\ {"success", "rawData"} \subseteq response.fields
               /\ response.fields \cap {"elevationPoints", "statistics"} = {}

\* The answer to a grid over full axes whose cells all hold the sentinel -9999.
C12_Witness ==
    /\ transformPc = "sent"
    /\ demData.shape = "grid"
    /\ Cardinality(GridCells) >= 2
    /\ \A c \in GridCells : InAxes(c) /\ CellAt(c) = Elevation(-9999 * Milli)
    /\ transformed = ReturnNull(69)

\* The cells that are samples: valid and inside both axes.
SampleCells == {c \in GridCells : SpecValid(CellAt(c)) /\ InAxes(c)}

RECURSIVE SumOfCells(_)
SumOfCells(S) ==
    IF S = {} THEN 0
    ELSE LET c == CHOOSE c \in S : TRUE
         IN  CellAt(c).val + SumOfCells(S \ {c})

\* The k-th smallest sample value, repetitions counted.
KthSmallest(k) ==
    CHOOSE v \in {CellAt(c).val : c \in SampleCells} :
        /\ Cardinality({c \in SampleCells : CellAt(c).val < v}) < k
        /\ k <= Cardinality({c \in SampleCells : CellAt(c).val <= v})

\* r is num / den rounded to two decimals (a multiple of ten thousandths).
IsRounded(r, num, den) ==
    /\ r % 10 = 0
    /\ (2 * r - 10) * den <= 2 * num
    /\ 2 * num < (2 * r + 10) * den

\* C13 as stated: count is the number of valid cells, min and max are the
\* smallest and largest valid value, mean is their sum divided by count and
\* median the middle value (the average of the two middle values when count
\* is even), all of them exact.
C13_ExactStatistics ==
    (transformPc # "parsed" /\ transformed.kind = "result") =>
        LET st == transformed.statistics
            valid == {c \in GridCells : SpecValid(CellAt(c))}
            n == Cardinality(SampleCells)
        IN  /\ st.count = Cardinality(valid)
            /\ st.min = KthSmallest(1)
            /\ st.max = KthSmallest(n)
            /\ st.mean * n = SumOfCells(SampleCells)
            /\ IF n % 2 = 0
               THEN 2 * st.median = KthSmallest(n \div 2) + KthSmallest(n \div 2 + 1)
               ELSE st.median = KthSmallest(n \div 2 + 1)

\* C13, amended: count is the number of valid cells inside the coordinate
\* axes; min, max, mean and median are the smallest value, the largest
\* value, the sum divided by count and the middle value (the average of the
\* two middle values when count is even) of those cells, each rounded to two
\* decimals.
C13_RoundedStatistics ==
    (transformPc # "parsed" /\ transformed.kind = "result") =>
        LET st == transformed.statistics
            n == Cardinality(SampleCells)
        IN  /\ st.count = n
            /\ n >= 1
            /\ IsRounded(st.min, KthSmallest(1), 1)
            /\ IsRounded(st.max, KthSmallest(n), 1)
            /\ IsRounded(st.mean, SumOfCells(SampleCells), n)
            /\ IF n % 2 = 0
               THEN IsRounded(st.median,
                              KthSmallest(n \div 2) + KthSmallest(n \div 2 + 1), 2)
               ELSE IsRounded(st.median, KthSmallest(n \div 2 + 1), 1)

\* The grid [[0,10],[20,30]] over full axes and its statistics.
C13_Witness ==
    /\ transformPc = "transformed"
    /\ demData.band = Band(<<Elevation(0), Elevation(10 * Milli),
                             Elevation(20 * Milli), Elevation(30 * Milli)>>, 2, FALSE)
    /\ \A c \in GridCells : InAxes(c)
    /\ transformed.statistics =
           [min |-> 0, max |-> 30 * Milli, mean |-> 15 * Milli,
            median |-> 15 * Milli, count |-> 4]

\* C14: transform never raises: whatever the payload (missing data,
\* non-array data, non-array rows, missing, empty or non-iterable axes,
\* cells of any type), it returns a result or null, and the endpoint's
\* answer to a parsed payload is never an error.
C14_TransformNeverRaises ==
    /\ transformPc # "parsed" => transformed.kind \in {"result", "null"}
    /\ transformPc = "sent" => response.status = 200

\* The answer to a payload on which the try block throws: a valid cell
\* inside axes of which one cannot be spread.
C14_Witness ==
    /\ transformPc = "sent"
    /\ TransformTry(demData).kind = "thrown"
    /\ transformed = ReturnNull(117)
    /\ response.status = 200

(***************************************************************************)
(* Claims about inbound requests, checked under SpecRequests.               *)
(***************************************************************************)
\* C15: an NDVI request whose start_date is later than its end_date is
\* rejected with a validation error (HTTP 400), and an otherwise valid
\* request whose start_date is earlier than or equal to its end_date is
\* accepted.
C15_DateOrderDecidesValidation ==
    (request.kind = "ndvi" /\ reqPc # "received") =>
        /\ (/\ dateSchema(request.start_date)
            /\ dateSchema(request.end_date)
            /\ ToDate(request.start_date).time > ToDate(request.end_date).time)
           => (reqPc = "responded" /\ answer = ValidationError)
        /\ (/\ ndviKeysSchema(request)
            /\ ToDate(request.start_date).time <= ToDate(request.end_date).time)
           => answer.status # 400

\* An otherwise valid request from day 2 to day 1 has been answered 400.
C15_Witness ==
    /\ request.kind = "ndvi"
    /\ request.start_date = Day(2)
    /\ request.end_date = Day(1)
    /\ ndviKeysSchema(request)
    /\ reqPc = "responded"
    /\ answer.status = 400

\* The request is one the schema of its route rejects.
FailsValidation ==
    \/ request.kind = "ndvi" /\ ~ndviRequestSchema(request)
    \/ request.kind = "dem" /\ ~demRequestSchema(request)

\* C16: a request that fails validation is answered 400 before any outbound
\* call: no capabilities, identity, catalog or result request is ever issued
\* for it, the token cache never changes, and its only answer is the 400.
C16_RejectedBeforeAnyOutboundCall ==
    [][FailsValidation =>
          /\ capRequests'[RequestCaller] = 0
          /\ tokRequests'[RequestCaller] = 0
          /\ resolverPc' = "idle"
          /\ resultCalls' = 0
          /\ accessToken' = accessToken
          /\ tokenExpiry' = tokenExpiry
          /\ reqPc' \in {"received", "responded"}
          /\ reqPc' = "responded" => answer'.status = 400]_vars

\* A DEM request for an unknown product, answered 400 over an empty cache
\* with no outbound call made.
C16_Witness ==
    /\ request.kind = "dem"
    /\ request.product = "SRTM"
    /\ coordinatesSchema(request.coordinates)
    /\ reqPc = "responded"
    /\ answer = ValidationError
    /\ accessToken = Null
    /\ capRequests[RequestCaller] = 0
    /\ resultCalls = 0

\* C18: POST /dem/clip accepts every body with valid coordinates, a product
\* of GLO-30, GLO-90, EEA-10 and an optional format of JSON, GTiff, PNG, and
\* answers by format: a JSON object for JSON, the raw bytes as image/tiff
\* for GTiff and as image/png for PNG.
C18_AcceptsAndAnswersByFormat ==
    (/\ request.kind = "dem"
     /\ coordinatesSchema(request.coordinates)
     /\ request.product \in {"GLO-30", "GLO-90", "EEA-10"}
     /\ request.format \in {Absent, "JSON", "GTiff", "PNG"}
     /\ request.saveLocally = Absent
     /\ reqPc = "responded") =>
        /\ answer.status # 400
        /\ (answer.status = 200 /\ request.format = "GTiff")
               => answer.contentType = "image/tiff"
        /\ (answer.status = 200 /\ request.format = "PNG")
               => answer.contentType = "image/png"
        /\ (answer.status = 200 /\ request.format = "JSON")
               => (/\ answer.contentType = "application/json"
                   /\ {"success", "rawData"} \subseteq answer.fields)

\* A remote call of the request has failed: the capabilities or the identity
\* request was rejected or the identity endpoint's body carried no token
\* (the refresh failed), or POST /result was rejected.
RemoteCallFailed ==
    \/ pc[RequestCaller] = "thrown"
    \/ (/\ tokenResponse[RequestCaller] # NoReply
        /\ ~WellFormedReply(tokenResponse[RequestCaller]))
    \/ resultReply = "rejected"

\* C19: within one inbound request each remote call is attempted at most
\* once, and once one of them has failed no further outbound call is made
\* for the request, which ends with an HTTP 500 response.
C19_NoRetryAndImmediatePropagation ==
    [][/\ capRequests'[RequestCaller] <= 1
       /\ tokRequests'[RequestCaller] <= 1
       /\ resultCalls' <= 1
       /\ RemoteCallFailed =>
              /\ capRequests'[RequestCaller] = capRequests[RequestCaller]
              /\ tokRequests'[RequestCaller] = tokRequests[RequestCaller]
              /\ resolverPc' = resolverPc
              /\ resultCalls' = resultCalls
              /\ reqPc' = "responded" => answer'.status = 500]_vars

\* C20: when remote graph execution fails, the 500 response carries the
\* error's message only in development mode; in any other mode the body
\* does not contain it.
C20_MessageOnlyInDevelopment ==
    (reqPc = "responded" /\ resultReply = "rejected") =>
        /\ answer.status = 500
        /\ ConfigNodeEnv(nodeEnv) # "development"
               => answer.message # ServiceError(request.kind)

(***************************************************************************)
(* Claims about the parsing of textual payloads, checked under SpecSanitize.*)
(***************************************************************************)
\* The payload's JSON with every non-standard token null.
WithTokensNull(text) ==
    RemoveSpaces(ReplaceAll(ReplaceAll(ReplaceAll(text, 1, "-Infinity", "null"),
                                       1, "Infinity", "null"),
                            1, "NaN", "null"))

\* C17: for every textual body in which NaN, Infinity or -Infinity occur as
\* member values or array elements, each token is mapped to null before
\* parsing and the parsed result is the body's JSON with those values null.
C17_TokensParsedAsNull ==
    (parsedData # NotParsed /\ (Includes(data, "NaN") \/ Includes(data, "Infinity"))) =>
        /\ parsedData.kind = "object"
        /\ parsedData.text = WithTokensNull(data)

(***************************************************************************)
(* Claims about the chain of outbound calls, checked under SpecRequests.    *)
(***************************************************************************)
\* The remote calls of the request that have been issued and not settled.
Outstanding ==
    (IF pc[RequestCaller] = "awaitCapabilities" THEN {"capabilities"} ELSE {})
    \cup (IF pc[RequestCaller] = "awaitToken" THEN {"identity"} ELSE {})
    \cup (IF resolverPc = "awaitCatalog" THEN {"catalog"} ELSE {})
    \cup (IF resultCalls > 0 /\ resultReply = "none" THEN {"result"} ELSE {})

\* getAccessToken has returned a token to the request.
TokenObtained ==
    /\ pc[RequestCaller] \in {"returnedCached", "returnedFresh"}
    /\ result[RequestCaller] # Null

\* C21: the outbound calls of a request come in the order token fetch (only
\* when no token is cached or the cached one has expired), catalog fetch
\* (DEM only), result fetch; a call is issued only after the one before it
\* has settled, so at most one is outstanding, and the result call is sent
\* only after getAccessToken has returned a token.
C21_OutboundCallsInOrder ==
    [][/\ Cardinality(Outstanding') <= 1
       /\ (capRequests'[RequestCaller] > capRequests[RequestCaller]) =>
              (accessToken = Null \/ tokenExpiry = NullExpiry \/ now >= tokenExpiry)
       /\ (resolverPc' # "idle") => (request'.kind = "dem" /\ TokenObtained')
       /\ (resultCalls' > 0) =>
              /\ TokenObtained'
              /\ request'.kind = "dem" => resolverPc' = "done"
              /\ request'.kind = "ndvi" => resolverPc' = "idle"]_vars

\* A DEM request over an empty cache whose result call is outstanding after
\* the capabilities, identity and catalog calls.
C21_Witness ==
    /\ request.kind = "dem"
    /\ capRequests[RequestCaller] = 1
    /\ tokRequests[RequestCaller] = 1
    /\ result[RequestCaller] = TokenPrefix \o "A"
    /\ resolverPc = "done"
    /\ Outstanding = {"result"}

(***************************************************************************)
(* Claims about the process graphs (SpecGraph).                             *)
(***************************************************************************)
\* The arguments of a node that may refer to another node.
RefArguments == {"data", "x", "y"}

\* The nodes a node refers to by from_node.
Refs(node) ==
    {node.arguments[a].from_node :
        a \in {b \in RefArguments \cap DOMAIN node.arguments :
                  "from_node" \in DOMAIN node.arguments[b]}}

\* The nodes of a graph flagged as result.
ResultNodes(g) == {n \in DOMAIN g : "result" \in DOMAIN g[n] /\ g[n].result}

GraphBuilt(call) == graphArgs.call = call /\ processGraph # NoGraph

\* C22: the graph of getDEMCutout has exactly the nodes load, reduce and save
\* for format JSON, reduce taking the mean over the dimension t of load and
\* save writing JSON from reduce; it has exactly load and save for GTiff and
\* PNG, save writing that format from load; in both shapes load names the
\* collection and the bbox and no temporal extent, each from_node names a node
\* of the graph, and save is the only node flagged as result.
C22_DemGraphShape ==
    GraphBuilt("dem") =>
        LET g == processGraph
            format == graphArgs.format
        IN  /\ format = "JSON" =>
                /\ DOMAIN g = {"load", "reduce", "save"}
                /\ g.reduce.process_id = "reduce_dimension"
                /\ g.reduce.arguments.dimension = "t"
                /\ LET rg == g.reduce.arguments.reducer.process_graph
                   IN  /\ ResultNodes(rg) # {}
                       /\ \A n \in ResultNodes(rg) : rg[n].process_id = "mean"
                /\ Refs(g.reduce) = {"load"}
                /\ Refs(g.save) = {"reduce"}
                /\ g.save.arguments.format = "JSON"
            /\ format \in {"GTiff", "PNG"} =>
                /\ DOMAIN g = {"load", "save"}
                /\ Refs(g.save) = {"load"}
                /\ g.save.arguments.format = format
            /\ g.load.process_id = "load_collection"
            /\ g.save.process_id = "save_result"
            /\ g.load.arguments.id = graphArgs.collectionId
            /\ g.load.arguments.spatial_extent = bboxFromPolygon(graphArgs.coordinates)
            /\ "temporal_extent" \notin DOMAIN g.load.arguments
            /\ \A n \in DOMAIN g : Refs(g[n]) \subseteq DOMAIN g
            /\ ResultNodes(g) = {"save"}

\* A JSON graph with its reduce node has been built.
C22_Witness ==
    /\ GraphBuilt("dem")
    /\ graphArgs.format = "JSON"
    /\ "reduce" \in DOMAIN processGraph
    /\ graphArgs.coordinates = <<Triangle>>

\* The band values of a pixel, in tenths.
Reflectances == 0..8

\* The value a node of a reducer graph denotes on the array data: openEO's
\* array_element (zero-based), subtract, add and divide (a fraction here).
RECURSIVE Eval(_, _, _)
Eval(rg, n, array) ==
    LET node == rg[n]
        arg(a) == Eval(rg, node.arguments[a].from_node, array)
    IN  IF node.process_id = "array_element" THEN array[node.arguments.index + 1]
        ELSE IF node.process_id = "subtract" THEN arg("x") - arg("y")
        ELSE IF node.process_id = "add" THEN arg("x") + arg("y")
        ELSE [num |-> arg("x"), den |-> arg("y")]

\* What reducedimension1 denotes on a pixel: the reducer on the array of the
\* pixel's values in the order of the loaded bands.
Denote(g, pixel) ==
    LET bands == g.loadcollection1.arguments.bands
        rg == g.reducedimension1.arguments.reducer.process_graph
    IN  Eval(rg, CHOOSE n \in ResultNodes(rg) : TRUE,
             [i \in DOMAIN bands |-> pixel[bands[i]]])

\* C23: the graph of getNDVITimeseries loads the bands B04, B08 in that order
\* with a null spatial extent; its reducer takes element 1 and element 0 and
\* its one result node denotes (B08 - B04) / (B08 + B04) on every pixel, 6/10
\* for NIR 0.8 and RED 0.2; the one result node of the graph is the spatial
\* mean over the polygon of the request.
C23_NdviBandOrder ==
    GraphBuilt("ndvi") =>
        LET g == processGraph
            rg == g.reducedimension1.arguments.reducer.process_graph
        IN  /\ g.loadcollection1.process_id = "load_collection"
            /\ g.loadcollection1.arguments.bands = <<"B04", "B08">>
            /\ g.loadcollection1.arguments.spatial_extent = Null
            /\ Refs(g.reducedimension1) = {"loadcollection1"}
            /\ g.reducedimension1.arguments.dimension = "bands"
            /\ rg.arrayelement1.arguments.index = 1
            /\ rg.arrayelement2.arguments.index = 0
            /\ ResultNodes(rg) = {"divide1"}
            /\ \A nir \in Reflectances, red \in Reflectances :
                  Denote(g, [B04 |-> red, B08 |-> nir])
                      = [num |-> nir - red, den |-> nir + red]
            /\ Denote(g, [B04 |-> 2, B08 |-> 8]) = [num |-> 6, den |-> 10]
            /\ ResultNodes(g) = {"aggregatespatial1"}
            /\ g.aggregatespatial1.process_id = "aggregate_spatial"
            /\ Refs(g.aggregatespatial1) = {"reducedimension1"}
            /\ g.aggregatespatial1.arguments.geometries.features[1].geometry.coordinates
                  = graphArgs.coordinates
            /\ LET mg == g.aggregatespatial1.arguments.reducer.process_graph
               IN  \A n \in ResultNodes(mg) : mg[n].process_id = "mean"

\* An NDVI graph over the triangle has been built.
C23_Witness ==
    /\ GraphBuilt("ndvi")
    /\ graphArgs.coordinates = <<Triangle>>
    /\ "reducedimension1" \in DOMAIN processGraph

(***************************************************************************)
(* Claims about the token cache under interleaving (Spec).                  *)
(***************************************************************************)
\* The cache is empty, or holds a prefixed token together with an expiry.
TokenCachePaired ==
    \/ accessToken = Null /\ tokenExpiry = NullExpiry
    \/ /\ accessToken # Null
       /\ tokenExpiry # NullExpiry
       /\ Len(accessToken) > Len(TokenPrefix)
       /\ SubSeq(accessToken, 1, Len(TokenPrefix)) = TokenPrefix

\* C24: in every state the cached token and the cached expiry are both absent
\* or both present, the token carrying the prefix; and every step that changes
\* either of them is the return of one caller's refresh whose identity request
\* resolved, writing the prefixed token of that caller's reply together with
\* the expiry of 55 minutes after that step's instant.
C24_TokenAndExpiryFromOneRefresh ==
    [][ /\ TokenCachePaired'
        /\ (accessToken' # accessToken \/ tokenExpiry' # tokenExpiry) =>
              \E c \in Callers :
                  /\ pc[c] = "awaitToken"
                  /\ pc'[c] = "returnedFresh"
                  /\ AxiosResolves(tokenResponse'[c])
                  /\ accessToken' = TokenPrefix \o tokenResponse'[c].access_token
                  /\ tokenExpiry' = now + TokenTTL
                  /\ result'[c] = accessToken' ]_vars

\* Two refreshes have returned different tokens in a later epoch; the cache
\* holds the second caller's token with the expiry of this instant.
C24_Witness ==
    /\ pc[1] = "returnedFresh"
    /\ pc[2] = "returnedFresh"
    /\ result[1] = TokenPrefix \o "A"
    /\ result[2] = TokenPrefix \o "B"
    /\ accessToken = result[2]
    /\ tokenExpiry = now + TokenTTL
    /\ now > TokenTTL

(***************************************************************************)
(* Claims about the format of a DEM request (SpecRequests).                 *)
(***************************************************************************)
\* The content type a cutout of a format is answered with.
ContentTypeOf(format) ==
    IF format = "GTiff" THEN "image/tiff"
    ELSE IF format = "PNG" THEN "image/png"
    ELSE "application/json"

\* C25: for every accepted POST /dem/clip that got its result, the format the
\* process graph was built for in getDEMCutout is the format whose content
\* type the route answers with and whose extension the saved file is named
\* with.
C25_OneFormatPerRequest ==
    (reqPc = "responded" /\ request.kind = "dem" /\ resultReply = "resolved") =>
        LET executed == demProcessGraph(ServiceFormat(request.format), FallbackId,
                                        NoBox).save.arguments.format
        IN  /\ answer.contentType = ContentTypeOf(executed)
            /\ getFileExtension(request.format) = getFileExtension(executed)

(***************************************************************************)
(* Claims about the termination of a request (SpecRequestsFair).            *)
(***************************************************************************)
\* C26: every inbound request, whatever its remote calls answer, eventually
\* has a response sent; a response is sent only by the step that ends the
\* handling of the request, and once the request is answered neither the
\* response nor the state of the request changes again.
C26_ExactlyOneResponse ==
    /\ (reqPc = "received") ~> (reqPc = "responded" /\ answer # NoAnswer)
    /\ [][ /\ (answer' # answer) =>
                (answer = NoAnswer /\ reqPc # "responded" /\ reqPc' = "responded")
           /\ (reqPc = "responded") => (reqPc' = "responded" /\ answer' = answer)
           /\ (reqPc' = "responded") => (answer' # NoAnswer) ]_vars

\* A DEM request whose POST /result was rejected has been answered with 500.
C26_Witness ==
    /\ reqPc = "responded"
    /\ request.kind = "dem"
    /\ resultReply = "rejected"
    /\ resultCalls = 1
    /\ answer.status = 500

(***************************************************************************)
(* Claims about the product tag in the resolver (SpecResolver).             *)
(***************************************************************************)
\* C27: when resolveDemCollectionId has returned, the identifier it returned
\* for the requested product is the identifier it returns for GLO-30, GLO-90
\* and EEA-10 alike on the same answer to GET /collections.
C27_ProductNeverInfluencesTheId ==
    resolverPc = "done" =>
        \A q \in Products :
            /\ ResolveOutcome(q, catalogReply).outcome = resolved.outcome
            /\ ResolveOutcome(q, catalogReply).id = resolved.id

\* A call for GLO-90 has returned an identifier picked from the catalog.
C27_Witness ==
    /\ resolverPc = "done"
    /\ product = "GLO-90"
    /\ AxiosResolves(catalogReply)
    /\ resolved.outcome = "returned"
    /\ resolved.id # FallbackId

(***************************************************************************)
(* Claims about the points and the statistics of a result (SpecTransform).  *)
(***************************************************************************)
\* The cells that contribute: valid, and inside both coordinate axes.
Contributing == {c \in GridCells : SpecValid(CellAt(c)) /\ InAxes(c)}

\* Row-major order of cells.
Before(c, d) == c[1] < d[1] \/ (c[1] = d[1] /\ c[2] < d[2])

\* The cells of S in row-major order.
RECURSIVE InScanOrder(_)
InScanOrder(S) ==
    IF S = {} THEN <<>>
    ELSE LET first == CHOOSE c \in S : \A d \in S \ {c} : Before(c, d)
         IN  <<first>> \o InScanOrder(S \ {first})

\* C28: in every result of transform the points are, one for one and in scan
\* order, the points of the distinct valid cells (y, x) with y below the
\* length of the y axis and x below the length of the x axis; there is at
\* least one; statistics.count is their number and the statistics are those
\* of exactly these cells' values, so a cell outside the axes is neither a
\* point nor a sample.
C28_PointsAndStatisticsAgree ==
    (transformPc # "parsed" /\ transformed.kind = "result") =>
        LET cells == InScanOrder(Contributing)
        IN  /\ Len(transformed.points) = transformed.statistics.count
            /\ transformed.statistics.count >= 1
            /\ Len(cells) = Len(transformed.points)
            /\ \A i \in 1..Len(cells) :
                  /\ transformed.points[i] = PointOf(cells[i])
                  /\ cells[i][1] < Len(demData.y.data)
                  /\ cells[i][2] < Len(demData.x.data)
            /\ transformed.statistics =
                  Statistics([i \in 1..Len(cells) |-> CellAt(cells[i]).val])

\* A result with one point, over a grid with a second valid cell that lies
\* outside the x axis.
C28_Witness ==
    /\ transformPc = "transformed"
    /\ transformed.kind = "result"
    /\ transformed.statistics.count = 1
    /\ \E c \in GridCells : SpecValid(CellAt(c)) /\ c[2] >= Len(demData.x.data)

(***************************************************************************)
(* Claims about the capabilities request of a refresh (Spec).               *)
(***************************************************************************)
\* C29: a caller's identity-endpoint request is issued only by the step in
\* which its capabilities request, issued before, resolves; the step in which
\* the capabilities request is rejected makes the call throw, issues no
\* identity request and leaves the cached token and expiry as they were; and a
\* call that threw without an identity request issues none afterwards.
C29_CapabilitiesBeforeIdentity ==
    [][ \A c \in Callers :
          /\ (tokRequests'[c] > tokRequests[c]) =>
                /\ pc[c] = "awaitCapabilities"
                /\ pc'[c] = "awaitToken"
                /\ capRequests[c] = 1
                /\ tokRequests[c] = 0
          /\ (capRequests'[c] > capRequests[c]) =>
                (pc[c] = "idle" /\ tokRequests'[c] = 0)
          /\ (pc[c] = "awaitCapabilities" /\ pc'[c] # "awaitCapabilities") =>
                \/ pc'[c] = "awaitToken" /\ tokRequests'[c] = 1
                \/ /\ pc'[c] = "thrown"
                   /\ tokRequests'[c] = 0
                   /\ accessToken' = accessToken
                   /\ tokenExpiry' = tokenExpiry
          /\ (pc[c] = "thrown" /\ tokRequests[c] = 0) => tokRequests'[c] = 0
      ]_vars

\* A refresh over an expired cache has thrown at the capabilities request:
\* no identity request was issued and the expired token is still cached.
C29_Witness ==
    /\ pc[1] = "thrown"
    /\ capRequests[1] = 1
    /\ tokRequests[1] = 0
    /\ accessToken = TokenPrefix \o "B"
    /\ now >= tokenExpiry

(***************************************************************************)
(* Claims about the file endpoints (SpecStorage).                           *)
(***************************************************************************)
RECURSIVE Concat(_)
\* The pieces of a text as one name.
Concat(text) == IF text = <<>> THEN "" ELSE Head(text) \o Concat(Tail(text))

\* C30: the files a GET or DELETE /dem/files/:filename request reads or
\* deletes are the file of that name directly inside the DEM storage
\* directory and its .meta.json sidecar, and nothing else.
C30_StorageContainment ==
    \A t \in touched :
        /\ Len(t.path) = Len(demDir) + 1
        /\ SubSeq(t.path, 1, Len(demDir)) = demDir
        /\ t.path[Len(t.path)] \in
              {Concat(DecodeParam(fileRequest.filename)),
               Concat(DecodeParam(fileRequest.filename)) \o ".meta.json"}

====
